---- MODULE Spec2Model ----
(***************************************************************************)
(* The editable Dashboard page of src/api.jsx as a state machine.          *)
(*                                                                         *)
(* The state is the component's useState hooks plus the router location    *)
(* and the fetch calls that are in flight.  One action models one event    *)
(* handler (or one completion of an awaited fetch) together with the       *)
(* re-render and the effects it triggers.                                  *)
(*                                                                         *)
(* Cell values are JavaScript strings.  A string of the model is a TLA+    *)
(* string; Chars gives its UTF-16 code units, and toLowerCase, includes,   *)
(* Number and the < of strings are computed on the code units.             *)
(***************************************************************************)
EXTENDS Integers, Sequences, FiniteSets, TLC

(***************************************************************************)
(* Bounds of the model                                                     *)
(***************************************************************************)
\* Page size used by the model.  The source fixes itemsPerPage at 200
\* (src/api.jsx:82); the model scales it down so that a table of three
\* records spans two pages.
PageSize == 2
\* Largest number of fetch('/excel-data') calls in flight at once.
MaxLoads == 2
\* Largest number of fetch('/excel-update') calls in flight at once.
MaxSaves == 2
\* Number of cell edits (single-field edits and bulk applies) explored.
MaxEdits == 2
\* Number of month changes and URL changes explored after the mount.
MaxReloads == 1
\* Number of sort, search and page changes explored.
MaxViews == 1
\* Largest number of rows of the Tables the views are computed over.
MaxRows == 3

NULL == "null"

(***************************************************************************)
(* JavaScript strings                                                      *)
(***************************************************************************)
\* UTF-16 code units of the strings that occur in the model.
Chars(s) ==
  CASE s = "" -> <<>>
    [] s = "Increase" -> <<73, 110, 99, 114, 101, 97, 115, 101>>
    [] s = "Decrease" -> <<68, 101, 99, 114, 101, 97, 115, 101>>
    [] s = "No Change" -> <<78, 111, 32, 67, 104, 97, 110, 103, 101>>
    [] s = "DECREASE" -> <<68, 69, 67, 82, 69, 65, 83, 69>>
    [] s = "ok" -> <<111, 107>>
    [] s = "G1" -> <<71, 49>>
    [] s = "G2" -> <<71, 50>>
    [] s = "g3" -> <<103, 51>>
    [] s = "g" -> <<103>>
    [] s = "g1" -> <<103, 49>>
    [] s = "decrease" -> <<100, 101, 99, 114, 101, 97, 115, 101>>
    [] s = "no change" -> <<110, 111, 32, 99, 104, 97, 110, 103, 101>>
    [] s = "undefined" -> <<117, 110, 100, 101, 102, 105, 110, 101, 100>>
    [] s = "0" -> <<48>>
    [] s = "1" -> <<49>>
    [] s = "9" -> <<57>>
    [] s = "10" -> <<49, 48>>
    [] s = "1a" -> <<49, 97>>
    [] s = "Hold" -> <<72, 111, 108, 100>>
    [] s = "increase" -> <<105, 110, 99, 114, 101, 97, 115, 101>>
    [] s = "Decision" -> <<68, 101, 99, 105, 115, 105, 111, 110>>
    [] s = "decision" -> <<100, 101, 99, 105, 115, 105, 111, 110>>
    [] s = "GroupId" -> <<71, 114, 111, 117, 112, 73, 100>>
    [] s = "Option 1" -> <<79, 112, 116, 105, 111, 110, 32, 49>>

\* String.prototype.toLowerCase on code units (ASCII letters).
toLowerCase(cs) ==
  [i \in 1..Len(cs) |-> IF cs[i] >= 65 /\ cs[i] <= 90 THEN cs[i] + 32 ELSE cs[i]]

\* String.prototype.includes: t occurs in cs as a contiguous substring.
includes(cs, t) ==
  \E i \in 0..(Len(cs) - Len(t)) :
    \A j \in 1..Len(t) : cs[i + j] = t[j]

\* The < of two strings: lexicographic on code units, a proper prefix first.
StrLess(x, y) ==
  \E i \in 1..(Len(x) + 1) :
    /\ i <= Len(y)
    /\ \A j \in 1..(i - 1) : j <= Len(x) /\ x[j] = y[j]
    /\ (i = Len(x) + 1 \/ x[i] < y[i])

IsDigits(cs) == Len(cs) > 0 /\ \A i \in 1..Len(cs) : cs[i] >= 48 /\ cs[i] <= 57

RECURSIVE DigitsValue(_)
DigitsValue(cs) ==
  IF Len(cs) = 0 THEN 0
  ELSE 10 * DigitsValue(SubSeq(cs, 1, Len(cs) - 1)) + (cs[Len(cs)] - 48)

\* Number(v) for the strings of the model: the empty string is 0, a run of
\* decimal digits is its value, anything else is NaN.
IsNaN(cs) == ~(Len(cs) = 0 \/ IsDigits(cs))
Number(cs) == IF Len(cs) = 0 THEN 0 ELSE DigitsValue(cs)

\* The value of a property the object does not have.
UNDEFINED == "<undefined>"

\* The number 0 as a cell value (JSON numbers are not strings).
ZERO == "<0>"

\* JavaScript truthiness of a cell value ('', undefined and 0 are falsy).
Truthy(v) == v # "" /\ v # UNDEFINED /\ v # ZERO

\* String(v) / v.toString() as code units.
String(v) ==
  IF v = UNDEFINED THEN Chars("undefined")
  ELSE IF v = ZERO THEN Chars("0")
  ELSE Chars(v)

(***************************************************************************)
(* Records and the Loader                                                  *)
(***************************************************************************)
Row(g, d, c) ==
  [GroupId |-> g, Decision |-> d, Comment |-> c, UpdatedBy |-> "", UpdatedTime |-> ""]

months == {"October", "November"}

\* What GET /excel-data?month=m answers with.
ServerTable(m) ==
  IF m = "October"
  THEN << Row("G2", "", ""), Row("G1", "", ""), Row("g3", "DECREASE", "") >>
  ELSE << Row("G1", "Increase", ""), Row("G2", "No Change", "") >>

\* The options of the Decision dropdown.
DecisionOptions == {"", "No Change", "Increase", "Decrease"}
\* Texts typed into a Comment input.
CommentValues == {"", "ok"}
\* Texts typed into the GroupId search box.
SearchTerms == {"", "g", "g1"}
\* Column headers clicked for sorting.
SortKeys == {"GroupId", "Decision"}

VARIABLES
  data,              \* useState([])            the Table
  loading,           \* useState(true)
  sortConfig,        \* useState({key: null, direction: 'asc'})
  selectedRows,      \* useState([])            array of row indices
  showSuccessModal,  \* useState(false)
  showBulkEditModal, \* useState(false)
  bulkDecision,      \* useState('')
  bulkComment,       \* useState('')
  error,             \* useState('')
  searchFilters,     \* useState({})            search term of the GroupId column
  currentPage,       \* useState(1)
  month,             \* useState('October')
  changedRows,       \* useState(new Set())     indices of edited rows
  showLoading,       \* useState(false)         the "Saving changes..." overlay
  search,            \* location.search: the month parameter of the URL, or NULL
  loads,             \* GET requests in flight, oldest first
  saves,             \* PUT requests in flight, oldest first
  snapshot,          \* the Table as last handed over by the Loader / accepted by the Persister
  used,              \* how many edits, reloads and view changes have been made
  lastOp,            \* the handler that ran last
  sortedData,        \* the memoised sortedData of the last render, as indices into data
  \* Hooks that only the other dashboards of the repository have:
  selectAllChecked,        \* useState(false)  src/unnamed/part_001:86, part_000:1026
  individualEditsEnabled,  \* useState(true)   src/unnamed/part_001:87
  originalData,            \* useState([])     src/unnamed/part_000:1027
  showModal,               \* useState(false)  src/crip.js:10
  decision,                \* useState('')     src/crip.js:11
  comment,                 \* useState('')     src/crip.js:12
  updatedBy                \* useState('')     src/crip.js:13

vars == << data, loading, sortConfig, selectedRows, showSuccessModal,
           showBulkEditModal, bulkDecision, bulkComment, error, searchFilters,
           currentPage, month, changedRows, showLoading, search, loads, saves,
           snapshot, used, lastOp, sortedData, selectAllChecked,
           individualEditsEnabled, originalData, showModal, decision, comment,
           updatedBy >>

\* The hooks src/api.jsx does not have.
otherHooks == << selectAllChecked, individualEditsEnabled, originalData,
                 showModal, decision, comment, updatedBy >>

\* Their initial values (the useState arguments).
otherHooksInit ==
  /\ selectAllChecked = FALSE
  /\ individualEditsEnabled = TRUE
  /\ originalData = <<>>
  /\ showModal = FALSE
  /\ decision = ""
  /\ comment = ""
  /\ updatedBy = ""

(***************************************************************************)
(* Derived views: filteredData, sortedData, pagination                     *)
(*                                                                         *)
(* A view is a sequence of indices into data (1-based), so that the model  *)
(* can tell which record of the Table a displayed row is.                  *)
(***************************************************************************)
\* filteredData's row predicate (src/api.jsx:148-153), for the one search
\* box the model types into (GroupId).
RowMatches(row, term) ==
  IF term = "" THEN TRUE
  ELSE /\ Truthy(row.GroupId)
       /\ includes(toLowerCase(String(row.GroupId)), toLowerCase(Chars(term)))

RECURSIVE FilterIdx(_, _, _)
FilterIdx(table, term, i) ==
  IF i > Len(table) THEN <<>>
  ELSE IF RowMatches(table[i], term)
       THEN <<i>> \o FilterIdx(table, term, i + 1)
       ELSE FilterIdx(table, term, i + 1)

\* A filter that loses the first of several matches.
filteredDataOfDropsFirst(table, term) ==
  LET f == FilterIdx(table, term, 1)
  IN IF Len(f) > 1 THEN Tail(f) ELSE f

filteredDataOf(table, term) == FilterIdx(table, term, 1)

\* The records a list of indices into a Table stands for.
Rows(table, idx) == [k \in 1..Len(idx) |-> table[idx[k]]]

\* A comparator without the numeric comparison of lines 169-174.
CompareAsStrings(aValue, bValue, direction) ==
  IF aValue = "" /\ bValue = "" THEN 0
  ELSE IF aValue = "" THEN (IF direction = "asc" THEN 1 ELSE -1)
  ELSE IF bValue = "" THEN (IF direction = "asc" THEN -1 ELSE 1)
  ELSE LET aStr == toLowerCase(String(aValue))
           bStr == toLowerCase(String(bValue))
       IN IF StrLess(aStr, bStr) THEN (IF direction = "asc" THEN -1 ELSE 1)
          ELSE IF StrLess(bStr, aStr) THEN (IF direction = "asc" THEN 1 ELSE -1)
          ELSE 0

\* The comparator handed to Array.prototype.sort (src/api.jsx:160-182):
\* a negative, zero or positive number.
Compare(aValue, bValue, direction) ==
  IF aValue = "" /\ bValue = "" THEN 0
  ELSE IF aValue = "" THEN (IF direction = "asc" THEN 1 ELSE -1)
  ELSE IF bValue = "" THEN (IF direction = "asc" THEN -1 ELSE 1)
  ELSE IF ~IsNaN(String(aValue)) /\ ~IsNaN(String(bValue))
       THEN (IF direction = "asc"
             THEN Number(String(aValue)) - Number(String(bValue))
             ELSE Number(String(bValue)) - Number(String(aValue)))
  ELSE LET aStr == toLowerCase(String(aValue))
           bStr == toLowerCase(String(bValue))
       IN IF StrLess(aStr, bStr) THEN (IF direction = "asc" THEN -1 ELSE 1)
          ELSE IF StrLess(bStr, aStr) THEN (IF direction = "asc" THEN 1 ELSE -1)
          ELSE 0

\* An insertion that puts x before the elements it compares equal to.
InsertSortedBeforeEquals(table, cfg, s, x) ==
  LET le == {i \in 1..Len(s) : Compare(table[s[i]][cfg.key], table[x][cfg.key], cfg.direction) < 0}
      k == IF le = {} THEN 0 ELSE CHOOSE i \in le : \A j \in le : j <= i
  IN SubSeq(s, 1, k) \o <<x>> \o SubSeq(s, k + 1, Len(s))

\* One step of a stable insertion: x goes right after the last element that
\* does not compare greater than it.
InsertSorted(table, cfg, s, x) ==
  LET le == {i \in 1..Len(s) : Compare(table[s[i]][cfg.key], table[x][cfg.key], cfg.direction) <= 0}
      k == IF le = {} THEN 0 ELSE CHOOSE i \in le : \A j \in le : j <= i
  IN SubSeq(s, 1, k) \o <<x>> \o SubSeq(s, k + 1, Len(s))

RECURSIVE StableSort(_, _, _, _)
StableSort(table, cfg, idx, n) ==
  IF n = 0 THEN <<>>
  ELSE InsertSorted(table, cfg, StableSort(table, cfg, idx, n - 1), idx[n])

\* The load-time replacement of the summary pages
\* (src/summary.jsx:53-63, 367-380): null, undefined and '' become '0'.
processedValue(v) == IF v = UNDEFINED \/ v = "" THEN "0" ELSE v

\* The comparator of the first summary page (src/summary.jsx:91-113): the
\* blank marker it tests for is '0'.
CompareFirstSummary(aValue, bValue, direction) ==
  IF aValue = "0" /\ bValue = "0" THEN 0
  ELSE IF aValue = "0" THEN (IF direction = "asc" THEN 1 ELSE -1)
  ELSE IF bValue = "0" THEN (IF direction = "asc" THEN -1 ELSE 1)
  ELSE Compare(aValue, bValue, direction)

\* The comparator of the second summary page (src/summary.jsx:408-430): it
\* has the text of the comparator of src/api.jsx:160-182 and tests for ''.
CompareSecondSummary(aValue, bValue, direction) == Compare(aValue, bValue, direction)

\* A rank table that follows the alphabet.
DecisionOrderAlphabetical(direction, lower) ==
  IF direction = "asc"
  THEN CASE lower = Chars("decrease") -> 1
         [] lower = Chars("increase") -> 2
         [] lower = Chars("no change") -> 3
         [] OTHER -> 4
  ELSE CASE lower = Chars("no change") -> 1
         [] lower = Chars("increase") -> 2
         [] lower = Chars("decrease") -> 3
         [] OTHER -> 4

\* order[lower] || 4 of the variant that sorts the Decision column by
\* priority (src/unnamed/part_000:1128-1138).
DecisionOrder(direction, lower) ==
  IF direction = "asc"
  THEN CASE lower = Chars("increase") -> 1
         [] lower = Chars("no change") -> 2
         [] lower = Chars("decrease") -> 3
         [] OTHER -> 4
  ELSE CASE lower = Chars("decrease") -> 1
         [] lower = Chars("no change") -> 2
         [] lower = Chars("increase") -> 3
         [] OTHER -> 4

\* The comparator of that variant (src/unnamed/part_000:1114-1157): the
\* comparator above with the Decision column compared by rank.
ComparePrioritized(key, aValue, bValue, direction) ==
  IF aValue = "" /\ bValue = "" THEN 0
  ELSE IF aValue = "" THEN (IF direction = "asc" THEN 1 ELSE -1)
  ELSE IF bValue = "" THEN (IF direction = "asc" THEN -1 ELSE 1)
  ELSE IF toLowerCase(Chars(key)) = Chars("decision")
       THEN DecisionOrder(direction, toLowerCase(String(aValue)))
              - DecisionOrder(direction, toLowerCase(String(bValue)))
  ELSE Compare(aValue, bValue, direction)

InsertPrioritized(table, cfg, s, x) ==
  LET le == {i \in 1..Len(s) :
               ComparePrioritized(cfg.key, table[s[i]][cfg.key], table[x][cfg.key],
                                  cfg.direction) <= 0}
      k == IF le = {} THEN 0 ELSE CHOOSE i \in le : \A j \in le : j <= i
  IN SubSeq(s, 1, k) \o <<x>> \o SubSeq(s, k + 1, Len(s))

RECURSIVE StablePrioritized(_, _, _, _)
StablePrioritized(table, cfg, idx, n) ==
  IF n = 0 THEN <<>>
  ELSE InsertPrioritized(table, cfg, StablePrioritized(table, cfg, idx, n - 1), idx[n])

\* sortedData of that variant (src/unnamed/part_000:1111-1158).
sortedDataPrioritized(table, term, cfg) ==
  LET f == filteredDataOf(table, term)
  IN IF cfg.key = NULL THEN f ELSE StablePrioritized(table, cfg, f, Len(f))

\* The useMemo of sortedData (src/api.jsx:157-183) over the useMemo of
\* filteredData (lines 147-154).  Array.prototype.sort is stable.
sortedDataOf(table, term, cfg) ==
  LET f == filteredDataOf(table, term)
  IN IF cfg.key = NULL THEN f ELSE StableSort(table, cfg, f, Len(f))

Sorted == sortedData

\* Pagination calculations (src/api.jsx:186-190); positions are 1-based, so
\* the window is startIndex+1 .. endIndex.
totalItems == Len(Sorted)
totalPagesFloor == totalItems \div PageSize
totalPages == (totalItems + PageSize - 1) \div PageSize
startIndexOf(page) == (page - 1) * PageSize
endIndexOf(page) ==
  IF startIndexOf(page) + PageSize < totalItems
  THEN startIndexOf(page) + PageSize
  ELSE totalItems
\* The positions (in sortedData) of the rows of currentData on a page.
WindowOf(page) ==
  {p \in 1..totalItems : p > startIndexOf(page) /\ p <= endIndexOf(page)}
startIndex == startIndexOf(currentPage)
endIndex == endIndexOf(currentPage)
Window == WindowOf(currentPage)

\* The record of the Table shown at position p of sortedData.
RowAt(p) == data[Sorted[p]]

\* row['Decision'] || row['decision'] || row['DECISION'] || '' : the rows of
\* the model carry the key 'Decision' only.
DecisionValue(row) == IF Truthy(row.Decision) THEN row.Decision ELSE ""

\* isGreyedOut (src/api.jsx:234-237, 251-255, 273-277, 682-684).
isGreyedOut(row) ==
  LET d == toLowerCase(String(DecisionValue(row)))
  IN d = Chars("decrease") \/ d = Chars("no change")

Range(s) == {s[i] : i \in 1..Len(s)}

\* selectableRows as computed by handleSelectAll and isSelectAllChecked.
selectableRows == {p \in Window : ~isGreyedOut(RowAt(p))}

\* isSelectAllChecked (src/api.jsx:295-312).
isSelectAllChecked ==
  /\ Window # {}
  /\ selectableRows # {}
  /\ selectableRows \subseteq Range(selectedRows)

\* isSaveEnabled (src/api.jsx:517-518).
isSaveEnabled ==
  /\ Len(selectedRows) > 0
  /\ \E i \in changedRows : i \in Range(selectedRows)

\* The component renders the table only when it is not loading (line 514)
\* and the Table is not empty (line 600).
TableShown == ~loading /\ Len(data) > 0

(***************************************************************************)
(* Rendering                                                               *)
(***************************************************************************)
\* Every handler is followed by a render, which recomputes the memoised
\* filteredData and sortedData from the new state.
Recompute == sortedData' = sortedDataOf(data', searchFilters', sortConfig')

\* A render after a handler of src/api.jsx, none of which sets a hook of
\* the other dashboards.
Render == Recompute /\ UNCHANGED otherHooks

(***************************************************************************)
(* Messages shown in the error banner                                      *)
(***************************************************************************)
ErrLoad == "Error loading data from MongoDB"
ErrSave == "Error saving data to MongoDB"
ErrSelectEdit == "Please select at least one row to edit."
ErrSelectSave == "Please select at least one row to save."
ErrBulkDecision == "Please select a decision for all selected rows."

Op(name, info) == [op |-> name, info |-> info]

(***************************************************************************)
(* Array helpers                                                           *)
(***************************************************************************)
\* {...undefined}: an object without any of the columns.
EmptyRow ==
  [GroupId |-> UNDEFINED, Decision |-> UNDEFINED, Comment |-> UNDEFINED,
   UpdatedBy |-> UNDEFINED, UpdatedTime |-> UNDEFINED]

\* arr[i] = { ...arr[i], Decision: d } and the like: the row at index i, or
\* the empty object when i is one past the end (the assignment then appends).
Get(table, i) == IF i <= Len(table) THEN table[i] ELSE EmptyRow
Put(table, i, row) ==
  CASE i <= Len(table) -> [table EXCEPT ![i] = row]
    [] i = Len(table) + 1 -> Append(table, row)

\* prev.filter(i => i !== x)
Without(s, x) == SelectSeq(s, LAMBDA i : i # x)

\* The elements of set S in ascending order.
RECURSIVE Ascending(_)
Ascending(S) ==
  IF S = {} THEN <<>>
  ELSE LET m == CHOOSE x \in S : \A y \in S : x <= y
       IN <<m>> \o Ascending(S \ {m})

\* s with element i removed.
RemoveAt(s, i) == SubSeq(s, 1, i - 1) \o SubSeq(s, i + 1, Len(s))

(***************************************************************************)
(* The fetchData effect (src/api.jsx:109-144)                              *)
(***************************************************************************)
\* One fetch of /excel-data in flight: the month of its URL.
Load(m) == [month |-> m]

\* The state right after the component is mounted on a URL: the first
\* render uses month 'October'; the effects set month from the URL and
\* start fetchData, and a month other than October re-runs the effect.
Init ==
  /\ search \in {NULL} \cup months
  /\ month = (IF search = NULL THEN "October" ELSE search)
  /\ loads = (IF month = "October" THEN <<Load("October")>>
              ELSE <<Load("October"), Load(month)>>)
  /\ loading = TRUE
  /\ data = <<>>
  /\ snapshot = <<>>
  /\ sortConfig = [key |-> NULL, direction |-> "asc"]
  /\ selectedRows = <<>>
  /\ showSuccessModal = FALSE
  /\ showBulkEditModal = FALSE
  /\ bulkDecision = ""
  /\ bulkComment = ""
  /\ error = ""
  /\ searchFilters = ""
  /\ currentPage = 1
  /\ changedRows = {}
  /\ showLoading = FALSE
  /\ saves = <<>>
  /\ used = [edits |-> 0, reloads |-> 0, views |-> 0]
  /\ lastOp = Op("mount", "")
  /\ sortedData = <<>>
  /\ otherHooksInit

\* handleMonthChange (src/api.jsx:212-231): the dropdown picks another
\* month; month and location.search change in one render, and the effect
\* starts one fetch for the new month.
handleMonthChange(m) ==
  /\ ~loading
  /\ m # month
  /\ Len(loads) < MaxLoads
  /\ used.reloads < MaxReloads
  /\ used' = [used EXCEPT !.reloads = @ + 1]
  /\ month' = m
  /\ search' = m
  /\ loading' = TRUE
  /\ error' = ""
  /\ loads' = Append(loads, Load(m))
  /\ lastOp' = Op("handleMonthChange", m)
  /\ UNCHANGED << data, sortConfig, selectedRows, showSuccessModal,
                  showBulkEditModal, bulkDecision, bulkComment, searchFilters,
                  currentPage, changedRows, showLoading, saves, snapshot >>
  /\ Render

\* The URL changes from outside (back/forward, a link).  The render that
\* sees the new location.search still has the old month: the first effect
\* (lines 104-107) schedules setMonth, the second (lines 109-144) fetches
\* for the old month; when the month did change, the next render runs the
\* second effect again and fetches for the new month.
Navigate(s) ==
  LET newMonth == IF s = NULL THEN "October" ELSE s
      started == IF newMonth = month THEN <<Load(month)>>
                 ELSE <<Load(month), Load(newMonth)>>
  IN /\ s # search
     /\ Len(loads) + Len(started) <= MaxLoads
     /\ used.reloads < MaxReloads
     /\ used' = [used EXCEPT !.reloads = @ + 1]
     /\ search' = s
     /\ month' = newMonth
     /\ loading' = TRUE
     /\ error' = ""
     /\ loads' = loads \o started
     /\ lastOp' = Op("Navigate", newMonth)
     /\ UNCHANGED << data, sortConfig, selectedRows, showSuccessModal,
                     showBulkEditModal, bulkDecision, bulkComment, searchFilters,
                     currentPage, changedRows, showLoading, saves, snapshot >>
     /\ Render

\* LoadDone with a catch block that also empties the Table.
LoadDoneClearsTable(i, ok) ==
  /\ i \in 1..Len(loads)
  /\ IF ok
     THEN /\ data' = ServerTable(loads[i].month)
          /\ changedRows' = {}
          /\ snapshot' = ServerTable(loads[i].month)
          /\ error' = error
     ELSE /\ error' = ErrLoad
          /\ data' = <<>>
          /\ UNCHANGED << changedRows, snapshot >>
  /\ loading' = FALSE
  /\ loads' = RemoveAt(loads, i)
  /\ lastOp' = Op("LoadDone", IF ok THEN "ok" ELSE "fail")
  /\ UNCHANGED << sortConfig, selectedRows, showSuccessModal, showBulkEditModal,
                  bulkDecision, bulkComment, searchFilters, currentPage, month,
                  showLoading, search, saves, used >>
  /\ Render

\* await fetch(apiUrl) of request i completes (lines 127-138).
LoadDone(i, ok) ==
  /\ i \in 1..Len(loads)
  /\ IF ok
     THEN /\ data' = ServerTable(loads[i].month)
          /\ changedRows' = {}
          /\ snapshot' = ServerTable(loads[i].month)
          /\ error' = error
     ELSE /\ error' = ErrLoad
          /\ UNCHANGED << data, changedRows, snapshot >>
  /\ loading' = FALSE
  /\ loads' = RemoveAt(loads, i)
  /\ lastOp' = Op("LoadDone", IF ok THEN "ok" ELSE "fail")
  /\ UNCHANGED << sortConfig, selectedRows, showSuccessModal, showBulkEditModal,
                  bulkDecision, bulkComment, searchFilters, currentPage, month,
                  showLoading, search, saves, used >>
  /\ Render

(***************************************************************************)
(* Selection                                                               *)
(***************************************************************************)
\* A setSelectedRows updater that only ever adds the index.
ToggleAddsOnly(prev, actualIndex) ==
  IF actualIndex \in Range(prev) THEN prev ELSE Append(prev, actualIndex)

\* The updater handed to setSelectedRows by handleCheckboxChange
\* (src/api.jsx:256-262).
Toggle(prev, actualIndex) ==
  IF actualIndex \in Range(prev)
  THEN Without(prev, actualIndex)
  ELSE Append(prev, actualIndex)

\* handleCheckboxChange without the check of lines 254-255: a greyed-out
\* row is toggled like any other.
handleCheckboxChangeAnyRow(p) ==
  /\ TableShown
  /\ p \in Window
  /\ isGreyedOut(RowAt(p)) \/ ~isSelectAllChecked
  /\ selectedRows' = (IF p \in Range(selectedRows)
                      THEN Without(selectedRows, p)
                      ELSE Append(selectedRows, p))
  /\ lastOp' = Op("handleCheckboxChange",
                  IF isGreyedOut(RowAt(p)) THEN "greyed" ELSE "toggled")
  /\ UNCHANGED << data, loading, sortConfig, showSuccessModal, showBulkEditModal,
                  bulkDecision, bulkComment, error, searchFilters, currentPage,
                  month, changedRows, showLoading, search, loads, saves,
                  snapshot, used >>
  /\ Render

\* handleCheckboxChange (src/api.jsx:246-264) for the row displayed at
\* position p of sortedData (actualIndex = p - 1).  The checkbox is disabled
\* while the header checkbox shows checked (line 712); for a greyed-out row
\* the handler itself returns without a state change (lines 254-255).
handleCheckboxChange(p) ==
  /\ TableShown
  /\ p \in Window
  /\ IF isGreyedOut(RowAt(p))
     THEN /\ UNCHANGED selectedRows
          /\ lastOp' = Op("handleCheckboxChange", "greyed")
     ELSE /\ ~isSelectAllChecked
          /\ selectedRows' = Toggle(selectedRows, p)
          /\ lastOp' = Op("handleCheckboxChange", "toggled")
  /\ UNCHANGED << data, loading, sortConfig, showSuccessModal, showBulkEditModal,
                  bulkDecision, bulkComment, error, searchFilters, currentPage,
                  month, changedRows, showLoading, search, loads, saves,
                  snapshot, used >>
  /\ Render

\* handleSelectAll whose deselect branch empties the whole selection.
handleSelectAllClearsAll ==
  LET allSelected == selectableRows \subseteq Range(selectedRows)
  IN /\ TableShown
     /\ IF allSelected
        THEN /\ selectedRows' = <<>>
             /\ lastOp' = Op("handleSelectAll", "deselect")
        ELSE /\ selectedRows' =
                  selectedRows \o Ascending(selectableRows \ Range(selectedRows))
             /\ lastOp' = Op("handleSelectAll", "select")
     /\ UNCHANGED << data, loading, sortConfig, showSuccessModal, showBulkEditModal,
                     bulkDecision, bulkComment, error, searchFilters, currentPage,
                     month, changedRows, showLoading, search, loads, saves,
                     snapshot, used >>
     /\ Render

\* handleSelectAll (src/api.jsx:267-292).
handleSelectAll ==
  LET allSelected == selectableRows \subseteq Range(selectedRows)
  IN /\ TableShown
     /\ IF allSelected
        THEN /\ selectedRows' = SelectSeq(selectedRows, LAMBDA i : i \notin selectableRows)
             /\ lastOp' = Op("handleSelectAll", "deselect")
        ELSE /\ selectedRows' =
                  selectedRows \o Ascending(selectableRows \ Range(selectedRows))
             /\ lastOp' = Op("handleSelectAll", "select")
     /\ UNCHANGED << data, loading, sortConfig, showSuccessModal, showBulkEditModal,
                     bulkDecision, bulkComment, error, searchFilters, currentPage,
                     month, changedRows, showLoading, search, loads, saves,
                     snapshot, used >>
     /\ Render

(***************************************************************************)
(* Sort, search, page                                                      *)
(***************************************************************************)
\* requestSort (src/api.jsx:198-203): a click on a column header.
requestSort(key) ==
  /\ TableShown
  /\ sortConfig' = [key |-> key,
                    direction |-> IF sortConfig.key = key /\ sortConfig.direction = "asc"
                                  THEN "desc" ELSE "asc"]
  /\ used.views < MaxViews
  /\ used' = [used EXCEPT !.views = @ + 1]
  /\ lastOp' = Op("requestSort", key)
  /\ UNCHANGED << data, loading, selectedRows, showSuccessModal, showBulkEditModal,
                  bulkDecision, bulkComment, error, searchFilters, currentPage,
                  month, changedRows, showLoading, search, loads, saves,
                  snapshot >>
  /\ Render

\* handleSearchChange (src/api.jsx:358-364): the text of the search box
\* changes to value.
handleSearchChange(value) ==
  /\ TableShown
  /\ value # searchFilters
  /\ searchFilters' = value
  /\ currentPage' = 1
  /\ used.views < MaxViews
  /\ used' = [used EXCEPT !.views = @ + 1]
  /\ lastOp' = Op("handleSearchChange", value)
  /\ UNCHANGED << data, loading, sortConfig, selectedRows, showSuccessModal,
                  showBulkEditModal, bulkDecision, bulkComment, error, month,
                  changedRows, showLoading, search, loads, saves, snapshot >>
  /\ Render

\* The page numbers the pagination bar offers (src/api.jsx:806-866):
\* Previous, Next and up to five numbered buttons.
PageButtons ==
  LET numbered == IF totalPages <= 5 THEN 1..totalPages
                  ELSE IF currentPage <= 3 THEN 1..5
                  ELSE IF currentPage >= totalPages - 2 THEN (totalPages - 4)..totalPages
                  ELSE (currentPage - 2)..(currentPage + 2)
      previous == IF currentPage = 1 THEN {} ELSE {currentPage - 1}
      next == IF currentPage = totalPages THEN {} ELSE {currentPage + 1}
  IN numbered \cup previous \cup next

\* handlePageChange (src/api.jsx:193-195); the bar is rendered only when the
\* list is longer than one page (line 798).
handlePageChange(pageNumber) ==
  /\ ~loading
  /\ totalItems > PageSize
  /\ pageNumber \in PageButtons
  /\ pageNumber # currentPage
  /\ currentPage' = pageNumber
  /\ used.views < MaxViews
  /\ used' = [used EXCEPT !.views = @ + 1]
  /\ lastOp' = Op("handlePageChange", "")
  /\ UNCHANGED << data, loading, sortConfig, selectedRows, showSuccessModal,
                  showBulkEditModal, bulkDecision, bulkComment, error,
                  searchFilters, month, changedRows, showLoading, search, loads,
                  saves, snapshot >>
  /\ Render

(***************************************************************************)
(* Edits                                                                   *)
(***************************************************************************)
\* handleEditNotification (src/api.jsx:315-321).
handleEditNotification(changed, actualIndex) == changed \cup {actualIndex}

\* An editor is rendered for the row at position p only when that position
\* is selected (src/api.jsx:730, 755).
EditorShown(p) == TableShown /\ p \in Window /\ p \in Range(selectedRows)

\* An input fires onChange only when its text changes.  The text is the
\* value of the displayed row, unless the last edit went to another record
\* than the displayed one and left the typed text in the input.
Typed(p, shown, newValue) == newValue # shown \/ Sorted[p] # p

\* handleCommentChange (src/api.jsx:324-338) from the editor at position p:
\* writes data[actualIndex], actualIndex being the position in sortedData.
handleCommentChange(p, newValue) ==
  /\ EditorShown(p)
  /\ used.edits < MaxEdits
  /\ Typed(p, IF Truthy(RowAt(p).Comment) THEN RowAt(p).Comment ELSE "", newValue)
  /\ data' = Put(data, p, [Get(data, p) EXCEPT !.Comment = newValue])
  /\ changedRows' = handleEditNotification(changedRows, p)
  /\ used' = [used EXCEPT !.edits = @ + 1]
  /\ lastOp' = Op("handleCommentChange", newValue)
  /\ UNCHANGED << loading, sortConfig, selectedRows, showSuccessModal,
                  showBulkEditModal, bulkDecision, bulkComment, error,
                  searchFilters, currentPage, month, showLoading, search, loads,
                  saves, snapshot >>
  /\ Render

\* handleDecisionChange that leaves the Decision of a record alone once it
\* is 'Decrease' or 'No Change'.
handleDecisionChangeKeepsTerminal(p, newValue) ==
  /\ EditorShown(p)
  /\ used.edits < MaxEdits
  /\ Typed(p, DecisionValue(RowAt(p)), newValue)
  /\ data' = (IF isGreyedOut(Get(data, p))
              THEN data
              ELSE Put(data, p, [Get(data, p) EXCEPT !.Decision = newValue]))
  /\ changedRows' = handleEditNotification(changedRows, p)
  /\ used' = [used EXCEPT !.edits = @ + 1]
  /\ lastOp' = Op("handleDecisionChange", newValue)
  /\ UNCHANGED << loading, sortConfig, selectedRows, showSuccessModal,
                  showBulkEditModal, bulkDecision, bulkComment, error,
                  searchFilters, currentPage, month, showLoading, search, loads,
                  saves, snapshot >>
  /\ Render

\* handleDecisionChange (src/api.jsx:341-355).
handleDecisionChange(p, newValue) ==
  /\ EditorShown(p)
  /\ used.edits < MaxEdits
  /\ Typed(p, DecisionValue(RowAt(p)), newValue)
  /\ data' = Put(data, p, [Get(data, p) EXCEPT !.Decision = newValue])
  /\ changedRows' = handleEditNotification(changedRows, p)
  /\ used' = [used EXCEPT !.edits = @ + 1]
  /\ lastOp' = Op("handleDecisionChange", newValue)
  /\ UNCHANGED << loading, sortConfig, selectedRows, showSuccessModal,
                  showBulkEditModal, bulkDecision, bulkComment, error,
                  searchFilters, currentPage, month, showLoading, search, loads,
                  saves, snapshot >>
  /\ Render

(***************************************************************************)
(* Bulk edit                                                               *)
(***************************************************************************)
\* new Date().toISOString(): the model does not tell instants apart.
NOW == "<now>"

\* { ...row, UpdatedBy: 'System User', UpdatedTime: new Date().toISOString() }
Stamp(row) == [row EXCEPT !.UpdatedBy = "System User", !.UpdatedTime = NOW]

\* handleBulkEdit (src/api.jsx:367-379).  The button is rendered in place of
\* the save button while the header checkbox shows checked (line 563).
handleBulkEdit ==
  /\ ~loading
  /\ isSelectAllChecked
  /\ IF Len(selectedRows) = 0
     THEN /\ error' = ErrSelectEdit
          /\ UNCHANGED << bulkDecision, bulkComment, showBulkEditModal >>
     ELSE /\ bulkDecision' = ""
          /\ bulkComment' = ""
          /\ showBulkEditModal' = TRUE
          /\ error' = error
  /\ lastOp' = Op("handleBulkEdit", "")
  /\ UNCHANGED << data, loading, sortConfig, selectedRows, showSuccessModal,
                  searchFilters, currentPage, month, changedRows, showLoading,
                  search, loads, saves, snapshot, used >>
  /\ Render

\* The Decision dropdown of the dialog (src/api.jsx:904-906).
setBulkDecision(value) ==
  /\ ~loading
  /\ showBulkEditModal
  /\ value # bulkDecision
  /\ bulkDecision' = value
  /\ lastOp' = Op("setBulkDecision", value)
  /\ UNCHANGED << data, loading, sortConfig, selectedRows, showSuccessModal,
                  showBulkEditModal, bulkComment, error, searchFilters,
                  currentPage, month, changedRows, showLoading, search, loads,
                  saves, snapshot, used >>
  /\ Render

\* The Comment textarea of the dialog (src/api.jsx:925-927).
setBulkComment(value) ==
  /\ ~loading
  /\ showBulkEditModal
  /\ value # bulkComment
  /\ bulkComment' = value
  /\ lastOp' = Op("setBulkComment", value)
  /\ UNCHANGED << data, loading, sortConfig, selectedRows, showSuccessModal,
                  showBulkEditModal, bulkDecision, error, searchFilters,
                  currentPage, month, changedRows, showLoading, search, loads,
                  saves, snapshot, used >>
  /\ Render

\* closeBulkEditModal (src/api.jsx:509-512).
closeBulkEditModal ==
  /\ ~loading
  /\ showBulkEditModal
  /\ showBulkEditModal' = FALSE
  /\ error' = ""
  /\ lastOp' = Op("closeBulkEditModal", "")
  /\ UNCHANGED << data, loading, sortConfig, selectedRows, showSuccessModal,
                  bulkDecision, bulkComment, searchFilters, currentPage, month,
                  changedRows, showLoading, search, loads, saves, snapshot, used >>
  /\ Render

\* The forEach of handleBulkEditSave (src/api.jsx:391-399) over rows[1..k].
RECURSIVE BulkRows(_, _, _, _, _)
BulkRows(table, rows, k, d, c) ==
  IF k = 0 THEN table
  ELSE LET t == BulkRows(table, rows, k - 1, d, c)
       IN Put(t, rows[k],
              Stamp([Get(t, rows[k]) EXCEPT !.Decision = d, !.Comment = c]))

\* handleBulkEditSave without the check of lines 383-386: an empty decision
\* is applied like any other.
handleBulkEditSaveUnchecked ==
  /\ ~loading
  /\ showBulkEditModal
  /\ used.edits < MaxEdits
  /\ data' = BulkRows(data, selectedRows, Len(selectedRows), bulkDecision, bulkComment)
  /\ changedRows' = changedRows \cup Range(selectedRows)
  /\ showBulkEditModal' = FALSE
  /\ error' = ""
  /\ used' = [used EXCEPT !.edits = @ + 1]
  /\ lastOp' = Op("handleBulkEditSave", "applied")
  /\ UNCHANGED << loading, sortConfig, selectedRows, showSuccessModal,
                  bulkDecision, bulkComment, searchFilters, currentPage, month,
                  showLoading, search, loads, saves, snapshot >>
  /\ Render

\* handleBulkEditSave (src/api.jsx:382-412).
handleBulkEditSave ==
  /\ ~loading
  /\ showBulkEditModal
  /\ IF bulkDecision = ""
     THEN /\ error' = ErrBulkDecision
          /\ lastOp' = Op("handleBulkEditSave", "rejected")
          /\ UNCHANGED << data, changedRows, showBulkEditModal, used >>
     ELSE /\ used.edits < MaxEdits
          /\ data' = BulkRows(data, selectedRows, Len(selectedRows), bulkDecision, bulkComment)
          /\ changedRows' = changedRows \cup Range(selectedRows)
          /\ showBulkEditModal' = FALSE
          /\ error' = ""
          /\ used' = [used EXCEPT !.edits = @ + 1]
          /\ lastOp' = Op("handleBulkEditSave", "applied")
  /\ UNCHANGED << loading, sortConfig, selectedRows, showSuccessModal,
                  bulkDecision, bulkComment, searchFilters, currentPage, month,
                  showLoading, search, loads, saves, snapshot >>
  /\ Render

(***************************************************************************)
(* Save                                                                    *)
(***************************************************************************)
\* The forEach of handleBulkSave (src/api.jsx:485-491) over rows[1..k].
RECURSIVE StampRows(_, _, _)
StampRows(table, rows, k) ==
  IF k = 0 THEN table
  ELSE LET t == StampRows(table, rows, k - 1)
       IN Put(t, rows[k], Stamp(Get(t, rows[k])))

\* The updates array of saveDataToMongoDB (src/api.jsx:421-445): one entry
\* per element of selectedRows, read from updatedData at that index.
Updates(updatedData, rows) ==
  [k \in 1..Len(rows) |->
     LET row == updatedData[rows[k]]
     IN [GroupId |-> IF Truthy(row.GroupId) THEN row.GroupId ELSE "Unknown",
         Pattern |-> "Unknown",  \* the rows of the model have no Pattern
         Cluster |-> "Unknown",  \* and no Cluster column
         Decision |-> row.Decision,
         comment |-> row.Comment,
         UpdatedBy |-> "System User",
         UpdatedTime |-> NOW]]

\* handleBulkSave without the check of lines 478-481: an empty selection
\* is sent like any other.
handleBulkSaveUnchecked ==
  /\ ~loading
  /\ ~isSelectAllChecked
  /\ Len(selectedRows) = 0 \/ isSaveEnabled
  /\ Len(saves) < MaxSaves
  /\ LET updatedData == StampRows(data, selectedRows, Len(selectedRows))
     IN saves' = Append(saves, [updatedData |-> updatedData,
                                rows |-> selectedRows,
                                updates |-> Updates(updatedData, selectedRows),
                                base |-> snapshot])
  /\ showLoading' = TRUE
  /\ error' = error
  /\ lastOp' = Op("handleBulkSave", IF Len(selectedRows) = 0 THEN "rejected" ELSE "sent")
  /\ UNCHANGED << data, loading, sortConfig, selectedRows, showSuccessModal,
                  showBulkEditModal, bulkDecision, bulkComment, searchFilters,
                  currentPage, month, changedRows, search, loads, snapshot, used >>
  /\ Render

\* handleBulkSave up to its await (src/api.jsx:477-493, 415-457).  The save
\* button is disabled unless isSaveEnabled (line 582) and is replaced by the
\* bulk-edit button while the header checkbox shows checked (line 563); the
\* handler's own check of an empty selection (lines 478-481) is modelled as
\* a call of the handler with nothing selected.
handleBulkSave ==
  /\ ~loading
  /\ ~isSelectAllChecked
  /\ IF Len(selectedRows) = 0
     THEN /\ error' = ErrSelectSave
          /\ lastOp' = Op("handleBulkSave", "rejected")
          /\ UNCHANGED << saves, showLoading >>
     ELSE /\ isSaveEnabled
          /\ Len(saves) < MaxSaves
          /\ LET updatedData == StampRows(data, selectedRows, Len(selectedRows))
             IN saves' = Append(saves, [updatedData |-> updatedData,
                                        rows |-> selectedRows,
                                        updates |-> Updates(updatedData, selectedRows),
                                        base |-> snapshot])
          /\ showLoading' = TRUE
          /\ error' = error
          /\ lastOp' = Op("handleBulkSave", "sent")
  /\ UNCHANGED << data, loading, sortConfig, selectedRows, showSuccessModal,
                  showBulkEditModal, bulkDecision, bulkComment, searchFilters,
                  currentPage, month, changedRows, search, loads, snapshot, used >>
  /\ Render

\* What the Persister holds once it has accepted the batch: the rows of the
\* snapshot at the batch's indices carry the batch's values.
RECURSIVE Persisted(_, _, _, _)
Persisted(base, rows, updates, k) ==
  IF k = 0 THEN base
  ELSE LET t == Persisted(base, rows, updates, k - 1)
       IN Put(t, rows[k],
              [Get(t, rows[k]) EXCEPT !.Decision = updates[k].Decision,
                                      !.Comment = updates[k].comment,
                                      !.UpdatedBy = updates[k].UpdatedBy,
                                      !.UpdatedTime = updates[k].UpdatedTime])

\* SaveDone without the setSelectedRows([]) of line 499.
SaveDoneKeepsSelection(i, ok) ==
  /\ i \in 1..Len(saves)
  /\ showLoading' = FALSE
  /\ IF ok
     THEN /\ showSuccessModal' = TRUE
          /\ error' = error
          /\ snapshot' = Persisted(saves[i].base, saves[i].rows, saves[i].updates,
                                   Len(saves[i].rows))
     ELSE /\ error' = ErrSave
          /\ UNCHANGED << showSuccessModal, snapshot >>
  /\ data' = saves[i].updatedData
  /\ changedRows' = {}
  /\ saves' = RemoveAt(saves, i)
  /\ lastOp' = Op("SaveDone", IF ok THEN "ok" ELSE "fail")
  /\ UNCHANGED << loading, sortConfig, selectedRows, showBulkEditModal, bulkDecision,
                  bulkComment, searchFilters, currentPage, month, search, loads,
                  used >>
  /\ Render

\* SaveDone that shows the success dialog whatever the response is.
SaveDoneAlwaysSucceeds(i, ok) ==
  /\ i \in 1..Len(saves)
  /\ showLoading' = FALSE
  /\ showSuccessModal' = TRUE
  /\ IF ok
     THEN /\ error' = error
          /\ snapshot' = Persisted(saves[i].base, saves[i].rows, saves[i].updates,
                                   Len(saves[i].rows))
     ELSE /\ error' = ErrSave
          /\ UNCHANGED snapshot
  /\ data' = saves[i].updatedData
  /\ selectedRows' = <<>>
  /\ changedRows' = {}
  /\ saves' = RemoveAt(saves, i)
  /\ lastOp' = Op("SaveDone", IF ok THEN "ok" ELSE "fail")
  /\ UNCHANGED << loading, sortConfig, showBulkEditModal, bulkDecision,
                  bulkComment, searchFilters, currentPage, month, search, loads,
                  used >>
  /\ Render

\* SaveDone whose catch block lacks the setShowLoading(false) of line 469.
SaveDoneKeepsOverlay(i, ok) ==
  /\ i \in 1..Len(saves)
  /\ IF ok
     THEN /\ showSuccessModal' = TRUE
          /\ showLoading' = FALSE
          /\ error' = error
          /\ snapshot' = Persisted(saves[i].base, saves[i].rows, saves[i].updates,
                                   Len(saves[i].rows))
     ELSE /\ error' = ErrSave
          /\ UNCHANGED << showSuccessModal, snapshot, showLoading >>
  /\ data' = saves[i].updatedData
  /\ selectedRows' = <<>>
  /\ changedRows' = {}
  /\ saves' = RemoveAt(saves, i)
  /\ lastOp' = Op("SaveDone", IF ok THEN "ok" ELSE "fail")
  /\ UNCHANGED << loading, sortConfig, showBulkEditModal, bulkDecision,
                  bulkComment, searchFilters, currentPage, month, search, loads,
                  used >>
  /\ Render

\* The PUT of save i is answered (src/api.jsx:459-473) and handleBulkSave
\* resumes after its await (lines 495-500).
SaveDone(i, ok) ==
  /\ i \in 1..Len(saves)
  /\ showLoading' = FALSE
  /\ IF ok
     THEN /\ showSuccessModal' = TRUE
          /\ error' = error
          /\ snapshot' = Persisted(saves[i].base, saves[i].rows, saves[i].updates,
                                   Len(saves[i].rows))
     ELSE /\ error' = ErrSave
          /\ UNCHANGED << showSuccessModal, snapshot >>
  /\ data' = saves[i].updatedData
  /\ selectedRows' = <<>>
  /\ changedRows' = {}
  /\ saves' = RemoveAt(saves, i)
  /\ lastOp' = Op("SaveDone", IF ok THEN "ok" ELSE "fail")
  /\ UNCHANGED << loading, sortConfig, showBulkEditModal, bulkDecision,
                  bulkComment, searchFilters, currentPage, month, search, loads,
                  used >>
  /\ Render

\* closeSuccessModal (src/api.jsx:504-506).
closeSuccessModal ==
  /\ ~loading
  /\ showSuccessModal
  /\ showSuccessModal' = FALSE
  /\ lastOp' = Op("closeSuccessModal", "")
  /\ UNCHANGED << data, loading, sortConfig, selectedRows, showBulkEditModal,
                  bulkDecision, bulkComment, error, searchFilters, currentPage,
                  month, changedRows, showLoading, search, loads, saves,
                  snapshot, used >>
  /\ Render

(***************************************************************************)
(* The specification                                                       *)
(***************************************************************************)
\* Positions of sortedData a handler can be called for (the Tables of the
\* model have at most three records).
Positions == 1..3

LoadRequests ==
  \/ \E m \in months : handleMonthChange(m)
  \/ \E s \in {NULL} \cup months : Navigate(s)

LoadAnswers ==
  \E i \in 1..MaxLoads, ok \in BOOLEAN : LoadDone(i, ok)

Selecting ==
  \/ \E p \in Positions : handleCheckboxChange(p)
  \/ handleSelectAll

Viewing ==
  \/ \E key \in SortKeys : requestSort(key)
  \/ \E value \in SearchTerms : handleSearchChange(value)
  \/ \E n \in Positions : handlePageChange(n)

Editing ==
  \/ \E p \in Positions, v \in CommentValues : handleCommentChange(p, v)
  \/ \E p \in Positions, v \in DecisionOptions : handleDecisionChange(p, v)

BulkEditing ==
  \/ handleBulkEdit
  \/ \E v \in DecisionOptions : setBulkDecision(v)
  \/ \E v \in CommentValues : setBulkComment(v)
  \/ closeBulkEditModal
  \/ handleBulkEditSave

Saving ==
  \/ handleBulkSave
  \/ \E i \in 1..MaxSaves, ok \in BOOLEAN : SaveDone(i, ok)
  \/ closeSuccessModal

\* Saving by a user who waits for the answer to a save before clicking the
\* save button again.
SavingInTurn ==
  \/ saves = <<>> /\ handleBulkSave
  \/ \E i \in 1..MaxSaves, ok \in BOOLEAN : SaveDone(i, ok)
  \/ closeSuccessModal

\* The whole page.
Next ==
  \/ LoadRequests \/ LoadAnswers \/ Selecting \/ Viewing
  \/ Editing \/ BulkEditing \/ Saving

Spec == Init /\ [][Next]_vars

(***************************************************************************)
(* The page under three kinds of use.  The product of all handlers is      *)
(* beyond what TLC explores in the time allowed, so each property is       *)
(* checked with the handlers it is about and a user who leaves the others  *)
(* alone.                                                                  *)
(***************************************************************************)
\* The page opened without a month in the URL.
InitOctober == Init /\ search = NULL

\* One Table: select, sort/search/page, edit cells, save.
NextSession ==
  LoadAnswers \/ Selecting \/ Viewing \/ Editing \/ SavingInTurn

SpecSession == InitOctober /\ [][NextSession]_vars

\* One Table: select, edit cells, bulk edit.
NextBulk ==
  LoadAnswers \/ Selecting \/ Editing \/ BulkEditing

SpecBulk == InitOctober /\ [][NextBulk]_vars

\* One Table: select, sort/search/page, bulk edit.
NextBulkView ==
  LoadAnswers \/ Selecting \/ Viewing \/ BulkEditing

SpecBulkView == InitOctober /\ [][NextBulkView]_vars

\* One Table: select, edit cells, save, with saves that overlap.
NextSaves ==
  LoadAnswers \/ Selecting \/ Editing \/ Saving

SpecSaves == InitOctober /\ [][NextSaves]_vars

\* Month and URL changes and saves, all of which may overlap, by a user who
\* ticks single rows and edits Decisions.
NextRequests ==
  \/ LoadRequests
  \/ LoadAnswers
  \/ \E p \in Positions : handleCheckboxChange(p)
  \/ \E p \in Positions, v \in DecisionOptions : handleDecisionChange(p, v)
  \/ Saving

SpecRequests == InitOctober /\ [][NextRequests]_vars

\* Every request is answered or fails: the promise of a fetch in flight
\* settles (src/api.jsx:127, 451).
SpecRequestsFair ==
  /\ SpecRequests
  /\ WF_vars(LoadAnswers)
  /\ WF_vars(\E i \in 1..MaxSaves, ok \in BOOLEAN : SaveDone(i, ok))

\* Month and URL changes with overlapping loads: sort, search, page.
NextReloadView ==
  LoadRequests \/ LoadAnswers \/ Viewing

SpecReloadView == Init /\ [][NextReloadView]_vars

\* Rows a Loader may answer with: numeric and non-numeric GroupIds, a blank
\* one, the number 0 and an absent one, and Decisions in several spellings.
ViewRows ==
  { Row("9", "Increase", ""), Row("10", "Decrease", ""), Row("1a", "No Change", ""),
    Row("", "", ""), Row(ZERO, "Hold", ""), Row("G1", "DECREASE", ""),
    Row(UNDEFINED, "increase", "") }

\* Tables of at most MaxRows such rows.
ViewTables == UNION {[1..n -> ViewRows] : n \in 0..MaxRows}

\* Texts found in the GroupId search box.
ViewTerms == {"", "0", "1"}

\* Sort states: none, or a column and a direction.
ViewSorts ==
  {[key |-> NULL, direction |-> "asc"]}
    \cup [key : SortKeys, direction : {"asc", "desc"}]

\* The page showing a Table the Loader has just answered with, the sort and
\* the search text being what the user left them at.
InitViews ==
  /\ data \in ViewTables
  /\ snapshot = data
  /\ sortConfig \in ViewSorts
  /\ searchFilters \in ViewTerms
  /\ sortedData = sortedDataOf(data, searchFilters, sortConfig)
  /\ currentPage = 1
  /\ search = NULL
  /\ month = "October"
  /\ loads = <<>>
  /\ loading = FALSE
  /\ selectedRows = <<>>
  /\ showSuccessModal = FALSE
  /\ showBulkEditModal = FALSE
  /\ bulkDecision = ""
  /\ bulkComment = ""
  /\ error = ""
  /\ changedRows = {}
  /\ showLoading = FALSE
  /\ saves = <<>>
  /\ used = [edits |-> 0, reloads |-> 0, views |-> 0]
  /\ lastOp = Op("LoadDone", "ok")
  /\ otherHooksInit

\* Sort, search and page changes over such a Table.
NextViews == Viewing

SpecViews == InitViews /\ [][NextViews]_vars

\* Month and URL changes with overlapping loads: select, edit cells.
NextReload ==
  LoadRequests \/ LoadAnswers \/ Selecting \/ Editing

SpecReload == Init /\ [][NextReload]_vars

(***************************************************************************)
(* The dashboard that keeps a selectAllChecked flag                        *)
(* (src/unnamed/part_001).  Its filter, sort, pagination, handlePageChange *)
(* and closeBulkEditModal are those of src/api.jsx, line for line.         *)
(***************************************************************************)
\* The state once the Loader has answered with table and nothing else has
\* been done.
LoadedWith(table) ==
  /\ data = table
  /\ snapshot = table
  /\ sortConfig = [key |-> NULL, direction |-> "asc"]
  /\ searchFilters = ""
  /\ sortedData = sortedDataOf(table, "", [key |-> NULL, direction |-> "asc"])
  /\ currentPage = 1
  /\ search = NULL
  /\ month = "October"
  /\ loads = <<>>
  /\ loading = FALSE
  /\ selectedRows = <<>>
  /\ showSuccessModal = FALSE
  /\ showBulkEditModal = FALSE
  /\ bulkDecision = ""
  /\ bulkComment = ""
  /\ error = ""
  /\ changedRows = {}
  /\ showLoading = FALSE
  /\ saves = <<>>
  /\ used = [edits |-> 0, reloads |-> 0, views |-> 0]
  /\ lastOp = Op("LoadDone", "ok")

\* isSelectAllChecked (src/unnamed/part_001:354-373): every selectable row
\* of the page is selected and the selection has as many elements.
FlagIsSelectAllChecked ==
  /\ Window # {}
  /\ selectableRows # {}
  /\ selectableRows \subseteq Range(selectedRows)
  /\ Len(selectedRows) = Cardinality(selectableRows)

\* handleSelectAll (src/unnamed/part_001:320-351): the branch is chosen by
\* the flag.
FlagHandleSelectAll ==
  /\ TableShown
  /\ IF selectAllChecked
     THEN /\ selectedRows' = <<>>
          /\ selectAllChecked' = FALSE
          /\ individualEditsEnabled' = TRUE
          /\ showBulkEditModal' = FALSE
          /\ UNCHANGED << bulkDecision, bulkComment >>
          /\ lastOp' = Op("handleSelectAll", "deselect")
     ELSE /\ selectedRows' = Ascending(selectableRows)
          /\ selectAllChecked' = TRUE
          /\ individualEditsEnabled' = FALSE
          /\ bulkDecision' = ""
          /\ bulkComment' = ""
          /\ showBulkEditModal' = TRUE
          /\ lastOp' = Op("handleSelectAll", "select")
  /\ UNCHANGED << data, loading, sortConfig, showSuccessModal, error,
                  searchFilters, currentPage, month, changedRows, showLoading,
                  search, loads, saves, snapshot, used, originalData, showModal,
                  decision, comment, updatedBy >>
  /\ Recompute

\* handleCheckboxChange (src/unnamed/part_001:277-317); the checkbox of a
\* greyed-out row is disabled (line 765), the others never are.
FlagHandleCheckboxChange(p) ==
  /\ TableShown
  /\ p \in Window
  /\ IF isGreyedOut(RowAt(p))
     THEN /\ UNCHANGED << selectedRows, individualEditsEnabled >>
          /\ lastOp' = Op("handleCheckboxChange", "greyed")
     ELSE /\ selectedRows' = Toggle(selectedRows, p)
          /\ individualEditsEnabled' =
               IF p \in Range(selectedRows)
               THEN (IF Len(selectedRows') < Cardinality(Window)
                     THEN TRUE ELSE individualEditsEnabled)
               ELSE (IF Len(selectedRows') = Cardinality(selectableRows)
                     THEN FALSE ELSE individualEditsEnabled)
          /\ lastOp' = Op("handleCheckboxChange", "toggled")
  /\ UNCHANGED << data, loading, sortConfig, showSuccessModal, showBulkEditModal,
                  bulkDecision, bulkComment, error, searchFilters, currentPage,
                  month, changedRows, showLoading, search, loads, saves,
                  snapshot, used, selectAllChecked, originalData, showModal,
                  decision, comment, updatedBy >>
  /\ Recompute

\* handleDecisionChange (src/unnamed/part_001:394-409): the dropdown of the
\* row at position p, enabled while individualEditsEnabled (line 814),
\* writes to data[startIndex + rowIndex].
FlagHandleDecisionChange(p, newValue) ==
  /\ TableShown
  /\ p \in Window
  /\ individualEditsEnabled
  /\ used.edits < MaxEdits
  /\ newValue # DecisionValue(RowAt(p))
  /\ data' = Put(data, p, [Get(data, p) EXCEPT !.Decision = newValue])
  /\ changedRows' = changedRows \cup {p}
  /\ used' = [used EXCEPT !.edits = @ + 1]
  /\ lastOp' = Op("handleDecisionChange", newValue)
  /\ UNCHANGED << loading, sortConfig, selectedRows, showSuccessModal,
                  showBulkEditModal, bulkDecision, bulkComment, error,
                  searchFilters, currentPage, month, showLoading, search, loads,
                  saves, snapshot, selectAllChecked, individualEditsEnabled,
                  originalData, showModal, decision, comment, updatedBy >>
  /\ Recompute

\* The Table of either month, loaded.
InitFlag ==
  /\ \E m \in months : LoadedWith(ServerTable(m))
  /\ otherHooksInit

\* Select-all, single ticks, Decision edits, page changes, and the bulk
\* edit dialog closed again.
NextFlag ==
  \/ FlagHandleSelectAll
  \/ \E p \in Positions : FlagHandleCheckboxChange(p)
  \/ \E p \in Positions, v \in DecisionOptions : FlagHandleDecisionChange(p, v)
  \/ \E n \in Positions : handlePageChange(n)
  \/ closeBulkEditModal

SpecFlag == InitFlag /\ [][NextFlag]_vars

(***************************************************************************)
(* The spreadsheet dashboard (src/crip.js).  It has no search box and no   *)
(* pages: sortedData is the whole Table, sorted by the comparator and the  *)
(* requestSort of src/api.jsx, line for line.                              *)
(***************************************************************************)
\* Rows of the sheet: two different records, one of them greyed out, and
\* Tables that may hold the same record more than once.
SheetRows == {Row("G1", "", ""), Row("G2", "Decrease", "")}
SheetTables == UNION {[1..n -> SheetRows] : n \in 1..MaxRows}
\* The options of the dialog's two dropdowns and the names typed into it.
SheetOptions == {"", "Option 1"}
SheetNames == {"", "me"}

\* JSON.stringify(row) === JSON.stringify(other): the rows have the same
\* keys in the same order and string values, so the texts are equal exactly
\* when the records are.
SameJSON(row, other) == row = other

\* data.findIndex(row => JSON.stringify(row) === JSON.stringify(target)):
\* the first index of an equal record, 0 for -1.
findIndex(table, target) ==
  LET hits == {i \in 1..Len(table) : SameJSON(table[i], target)}
  IN IF hits = {} THEN 0 ELSE CHOOSE i \in hits : \A j \in hits : i <= j

\* What handleSubmitRevision writes into a record (src/crip.js:197-203).
Revised(row) ==
  [row EXCEPT !.Decision = decision, !.Comment = comment,
              !.UpdatedBy = updatedBy, !.UpdatedTime = NOW]

\* The forEach of handleSubmitRevision (src/crip.js:189-205) over
\* rows[1..k]: each index is looked up in data and written to updatedData.
RECURSIVE SubmitRows(_, _)
SubmitRows(rows, k) ==
  IF k = 0 THEN data
  ELSE LET t == SubmitRows(rows, k - 1)
           originalDataIndex == findIndex(data, data[sortedData[rows[k]]])
       IN IF originalDataIndex # 0
          THEN [t EXCEPT ![originalDataIndex] = Revised(t[originalDataIndex])]
          ELSE t

\* handleCheckboxChange (src/crip.js:111-128) on the checkbox of the row at
\* position p, which is disabled for a 'Decrease' row (line 303).
SheetHandleCheckboxChange(p) ==
  /\ TableShown
  /\ p \in 1..Len(sortedData)
  /\ toLowerCase(String(DecisionValue(RowAt(p)))) # Chars("decrease")
  /\ selectedRows' = Toggle(selectedRows, p)
  /\ lastOp' = Op("handleCheckboxChange", "toggled")
  /\ UNCHANGED << data, loading, sortConfig, showSuccessModal, showBulkEditModal,
                  bulkDecision, bulkComment, error, searchFilters, currentPage,
                  month, changedRows, showLoading, search, loads, saves,
                  snapshot, used, otherHooks >>
  /\ Recompute

\* handleApplyRevision (src/crip.js:131-137).
handleApplyRevision ==
  /\ ~loading
  /\ IF Len(selectedRows) = 0
     THEN /\ UNCHANGED showModal
          /\ lastOp' = Op("handleApplyRevision", "alert")
     ELSE /\ showModal' = TRUE
          /\ lastOp' = Op("handleApplyRevision", "shown")
  /\ UNCHANGED << data, loading, sortConfig, selectedRows, showSuccessModal,
                  showBulkEditModal, bulkDecision, bulkComment, error,
                  searchFilters, currentPage, month, changedRows, showLoading,
                  search, loads, saves, snapshot, used, selectAllChecked,
                  individualEditsEnabled, originalData, decision, comment,
                  updatedBy >>
  /\ Recompute

\* The three fields of the dialog (src/crip.js:370, 392, 415).
setDecision(v) ==
  /\ showModal
  /\ v # decision
  /\ decision' = v
  /\ lastOp' = Op("setDecision", v)
  /\ UNCHANGED << data, loading, sortConfig, selectedRows, showSuccessModal,
                  showBulkEditModal, bulkDecision, bulkComment, error,
                  searchFilters, currentPage, month, changedRows, showLoading,
                  search, loads, saves, snapshot, used, selectAllChecked,
                  individualEditsEnabled, originalData, showModal, comment,
                  updatedBy >>
  /\ Recompute

setComment(v) ==
  /\ showModal
  /\ v # comment
  /\ comment' = v
  /\ lastOp' = Op("setComment", v)
  /\ UNCHANGED << data, loading, sortConfig, selectedRows, showSuccessModal,
                  showBulkEditModal, bulkDecision, bulkComment, error,
                  searchFilters, currentPage, month, changedRows, showLoading,
                  search, loads, saves, snapshot, used, selectAllChecked,
                  individualEditsEnabled, originalData, showModal, decision,
                  updatedBy >>
  /\ Recompute

setUpdatedBy(v) ==
  /\ showModal
  /\ v # updatedBy
  /\ updatedBy' = v
  /\ lastOp' = Op("setUpdatedBy", v)
  /\ UNCHANGED << data, loading, sortConfig, selectedRows, showSuccessModal,
                  showBulkEditModal, bulkDecision, bulkComment, error,
                  searchFilters, currentPage, month, changedRows, showLoading,
                  search, loads, saves, snapshot, used, selectAllChecked,
                  individualEditsEnabled, originalData, showModal, decision,
                  comment >>
  /\ Recompute

\* handleSubmitRevision (src/crip.js:181-213).  saveDataToExcel (lines
\* 140-178) builds and downloads a file and awaits nothing, so the handler
\* runs to its end before any other event.
handleSubmitRevision ==
  /\ showModal
  /\ IF decision = "" \/ comment = "" \/ updatedBy = ""
     THEN /\ UNCHANGED << data, selectedRows, showModal, decision, comment,
                          updatedBy >>
          /\ lastOp' = Op("handleSubmitRevision", "alert")
     ELSE /\ data' = SubmitRows(selectedRows, Len(selectedRows))
          /\ selectedRows' = <<>>
          /\ showModal' = FALSE
          /\ decision' = ""
          /\ comment' = ""
          /\ updatedBy' = ""
          /\ lastOp' = Op("handleSubmitRevision", "saved")
  /\ UNCHANGED << loading, sortConfig, showSuccessModal, showBulkEditModal,
                  bulkDecision, bulkComment, error, searchFilters, currentPage,
                  month, changedRows, showLoading, search, loads, saves,
                  snapshot, used, selectAllChecked, individualEditsEnabled,
                  originalData >>
  /\ Recompute

\* closeModal (src/crip.js:216-221).
closeModal ==
  /\ showModal
  /\ showModal' = FALSE
  /\ decision' = ""
  /\ comment' = ""
  /\ updatedBy' = ""
  /\ lastOp' = Op("closeModal", "")
  /\ UNCHANGED << data, loading, sortConfig, selectedRows, showSuccessModal,
                  showBulkEditModal, bulkDecision, bulkComment, error,
                  searchFilters, currentPage, month, changedRows, showLoading,
                  search, loads, saves, snapshot, used, selectAllChecked,
                  individualEditsEnabled, originalData >>
  /\ Recompute

\* A sheet, loaded.
InitSheet ==
  /\ \E table \in SheetTables : LoadedWith(table)
  /\ otherHooksInit

NextSheet ==
  \/ \E key \in SortKeys : requestSort(key)
  \/ \E p \in Positions : SheetHandleCheckboxChange(p)
  \/ handleApplyRevision
  \/ \E v \in SheetOptions : setDecision(v)
  \/ \E v \in SheetOptions : setComment(v)
  \/ \E v \in SheetNames : setUpdatedBy(v)
  \/ handleSubmitRevision
  \/ closeModal

SpecSheet == InitSheet /\ [][NextSheet]_vars

(***************************************************************************)
(* The dashboard that gives every record a __uniqueId__                    *)
(* (src/unnamed/part_000:1010-2025).  It sorts by Decision rank, starting  *)
(* with Decision ascending, and keeps originalData for isSaveEnabled.      *)
(***************************************************************************)
\* An id made of the time alone, which rows of one load would share.
UniqueIdWithoutIndex(index) == << "id", NOW >>

\* `${index}_${Date.now()}` (line 1082); index counts from 0.
UniqueId(index) == << "id", index, NOW >>

\* { ...row, __uniqueId__: id }
WithId(row, id) ==
  [f \in (DOMAIN row) \cup {"__uniqueId__"} |->
     IF f = "__uniqueId__" THEN id ELSE row[f]]

IdOf(row) == row["__uniqueId__"]

\* dataWithIds (lines 1079-1084).
dataWithIds(jsonData) ==
  [i \in 1..Len(jsonData) |-> WithId(jsonData[i], UniqueId(i - 1))]

\* prevData.map(row => row.__uniqueId__ === id ? changed : row), where
\* changed[i] is what the callback makes of row i.
MapById(table, ids, changed) ==
  [i \in 1..Len(table) |->
     IF IdOf(table[i]) \in ids THEN changed[i] ELSE table[i]]

\* An element handleCheckboxChange puts into selectedRows: the number
\* actualIndex (line 1242), which equals no __uniqueId__ string.
IndexElement(p) == << "index", p - 1 >>

\* The render after a handler of this dashboard.
RenderIds ==
  /\ sortedData' = sortedDataPrioritized(data', searchFilters', sortConfig')
  /\ UNCHANGED << individualEditsEnabled, showModal, decision, comment,
                  updatedBy >>

\* The number of selected rows from which the bulk edit dialog is offered
\* (lines 1278, 1536), scaled down with the page size.
BulkThreshold == 2

\* The ids of the selectable rows of the page, in page order.
IdSelectableRows ==
  LET ps == Ascending(selectableRows)
  IN [k \in 1..Len(ps) |-> IdOf(RowAt(ps[k]))]

\* isSaveEnabled (lines 1167-1181).
IdIsSaveEnabled ==
  /\ Len(selectedRows) > 0
  /\ \E k \in 1..Len(selectedRows) : \E i \in 1..Len(data), j \in 1..Len(originalData) :
       /\ IdOf(data[i]) = selectedRows[k]
       /\ IdOf(originalData[j]) = selectedRows[k]
       /\ \A i2 \in 1..(i - 1) : IdOf(data[i2]) # selectedRows[k]
       /\ \A j2 \in 1..(j - 1) : IdOf(originalData[j2]) # selectedRows[k]
       /\ \/ data[i].Decision # originalData[j].Decision
          \/ data[i].Comment # originalData[j].Comment

\* The mounted component with its first fetch in flight.
InitIds ==
  /\ search = NULL
  /\ month = "October"
  /\ loads = << Load("October") >>
  /\ loading = TRUE
  /\ data = <<>>
  /\ snapshot = <<>>
  /\ originalData = <<>>
  /\ sortConfig = [key |-> "Decision", direction |-> "asc"]
  /\ selectedRows = <<>>
  /\ showSuccessModal = FALSE
  /\ showBulkEditModal = FALSE
  /\ bulkDecision = ""
  /\ bulkComment = ""
  /\ error = ""
  /\ searchFilters = ""
  /\ currentPage = 1
  /\ changedRows = {}
  /\ showLoading = FALSE
  /\ selectAllChecked = FALSE
  /\ saves = <<>>
  /\ used = [edits |-> 0, reloads |-> 0, views |-> 0]
  /\ lastOp = Op("mount", "")
  /\ sortedData = <<>>
  /\ individualEditsEnabled = TRUE
  /\ showModal = FALSE
  /\ decision = ""
  /\ comment = ""
  /\ updatedBy = ""

\* await fetch(apiUrl) completes (lines 1074-1092).
IdLoadDone(ok) ==
  /\ loads # <<>>
  /\ IF ok
     THEN /\ data' = dataWithIds(ServerTable(loads[1].month))
          /\ originalData' = data'
          /\ snapshot' = ServerTable(loads[1].month)
          /\ error' = error
     ELSE /\ error' = ErrLoad
          /\ UNCHANGED << data, originalData, snapshot >>
  /\ loading' = FALSE
  /\ loads' = Tail(loads)
  /\ lastOp' = Op("LoadDone", IF ok THEN "ok" ELSE "fail")
  /\ UNCHANGED << sortConfig, selectedRows, showSuccessModal, showBulkEditModal,
                  bulkDecision, bulkComment, searchFilters, currentPage, month,
                  changedRows, showLoading, search, saves, used,
                  selectAllChecked >>
  /\ RenderIds

\* requestSort (lines 1189-1194).
IdRequestSort(key) ==
  /\ TableShown
  /\ sortConfig' = [key |-> key,
                    direction |-> IF sortConfig.key = key /\ sortConfig.direction = "asc"
                                  THEN "desc" ELSE "asc"]
  /\ used.views < MaxViews
  /\ used' = [used EXCEPT !.views = @ + 1]
  /\ lastOp' = Op("requestSort", key)
  /\ UNCHANGED << data, loading, selectedRows, showSuccessModal, showBulkEditModal,
                  bulkDecision, bulkComment, error, searchFilters, currentPage,
                  month, changedRows, showLoading, search, loads, saves,
                  snapshot, selectAllChecked, originalData >>
  /\ RenderIds

\* handleSearchChange (lines 1349-1355).
IdHandleSearchChange(value) ==
  /\ TableShown
  /\ value # searchFilters
  /\ searchFilters' = value
  /\ currentPage' = 1
  /\ used.views < MaxViews
  /\ used' = [used EXCEPT !.views = @ + 1]
  /\ lastOp' = Op("handleSearchChange", value)
  /\ UNCHANGED << data, loading, sortConfig, selectedRows, showSuccessModal,
                  showBulkEditModal, bulkDecision, bulkComment, error, month,
                  changedRows, showLoading, search, loads, saves, snapshot,
                  selectAllChecked, originalData >>
  /\ RenderIds

\* handleCheckboxChange (lines 1240-1258); the checkbox of a greyed-out row
\* is disabled (line 1684).
IdHandleCheckboxChange(p) ==
  /\ TableShown
  /\ p \in Window
  /\ ~isGreyedOut(RowAt(p))
  /\ selectedRows' = Toggle(selectedRows, IndexElement(p))
  /\ lastOp' = Op("handleCheckboxChange", "toggled")
  /\ UNCHANGED << data, loading, sortConfig, showSuccessModal, showBulkEditModal,
                  bulkDecision, bulkComment, error, searchFilters, currentPage,
                  month, changedRows, showLoading, search, loads, saves,
                  snapshot, used, selectAllChecked, originalData >>
  /\ RenderIds

\* handleSelectAll (lines 1261-1287).
IdHandleSelectAll ==
  /\ TableShown
  /\ IF selectAllChecked
     THEN /\ selectedRows' = <<>>
          /\ selectAllChecked' = FALSE
          /\ showBulkEditModal' = FALSE
          /\ UNCHANGED << bulkDecision, bulkComment >>
          /\ lastOp' = Op("handleSelectAll", "deselect")
     ELSE /\ selectedRows' = IdSelectableRows
          /\ selectAllChecked' = TRUE
          /\ IF Len(IdSelectableRows) >= BulkThreshold
             THEN /\ bulkDecision' = ""
                  /\ bulkComment' = ""
                  /\ showBulkEditModal' = TRUE
             ELSE UNCHANGED << bulkDecision, bulkComment, showBulkEditModal >>
          /\ lastOp' = Op("handleSelectAll", "select")
  /\ UNCHANGED << data, loading, sortConfig, showSuccessModal, error,
                  searchFilters, currentPage, month, changedRows, showLoading,
                  search, loads, saves, snapshot, used, originalData >>
  /\ RenderIds

\* handleDecisionChange (lines 1329-1346) on the dropdown of the row at
\* position p, which is never disabled (line 1731).  handleCommentChange
\* (lines 1309-1326) is the same code with Comment for Decision.
IdHandleDecisionChange(p, newValue) ==
  /\ TableShown
  /\ p \in Window
  /\ used.edits < MaxEdits
  /\ newValue # DecisionValue(RowAt(p))
  /\ LET rowUniqueId == IdOf(RowAt(p))
         changed == [i \in 1..Len(data) |-> [data[i] EXCEPT !.Decision = newValue]]
     IN /\ data' = MapById(data, {rowUniqueId}, changed)
        /\ changedRows' = changedRows \cup {rowUniqueId}
  /\ used' = [used EXCEPT !.edits = @ + 1]
  /\ lastOp' = Op("handleDecisionChange", newValue)
  /\ UNCHANGED << loading, sortConfig, selectedRows, showSuccessModal,
                  showBulkEditModal, bulkDecision, bulkComment, error,
                  searchFilters, currentPage, month, showLoading, search, loads,
                  saves, snapshot, selectAllChecked, originalData >>
  /\ RenderIds

\* The Decision dropdown of the bulk edit dialog.
IdSetBulkDecision(value) ==
  /\ ~loading
  /\ showBulkEditModal
  /\ value # bulkDecision
  /\ bulkDecision' = value
  /\ lastOp' = Op("setBulkDecision", value)
  /\ UNCHANGED << data, loading, sortConfig, selectedRows, showSuccessModal,
                  showBulkEditModal, bulkComment, error, searchFilters,
                  currentPage, month, changedRows, showLoading, search, loads,
                  saves, snapshot, used, selectAllChecked, originalData >>
  /\ RenderIds

\* handleBulkEditSave (lines 1358-1388).
IdHandleBulkEditSave ==
  /\ ~loading
  /\ showBulkEditModal
  /\ IF bulkDecision = ""
     THEN /\ error' = ErrBulkDecision
          /\ UNCHANGED << data, changedRows, showBulkEditModal >>
          /\ lastOp' = Op("handleBulkEditSave", "rejected")
     ELSE /\ LET changed ==
                   [i \in 1..Len(data) |->
                      Stamp([data[i] EXCEPT !.Decision = bulkDecision,
                                            !.Comment = bulkComment])]
             IN data' = MapById(data, Range(selectedRows), changed)
          /\ changedRows' = changedRows \cup Range(selectedRows)
          /\ showBulkEditModal' = FALSE
          /\ error' = ""
          /\ lastOp' = Op("handleBulkEditSave", "applied")
  /\ UNCHANGED << loading, sortConfig, selectedRows, showSuccessModal,
                  bulkDecision, bulkComment, searchFilters, currentPage, month,
                  showLoading, search, loads, saves, snapshot, used,
                  selectAllChecked, originalData >>
  /\ RenderIds

\* handleBulkSave up to the await of the PUT (lines 1455-1472, 1397-1435).
\* The button takes the place of "Change All" below the threshold (line
\* 1536) and is disabled unless isSaveEnabled (line 1555).  An element of
\* selectedRows that is no __uniqueId__ of the Table makes the updates map
\* throw inside the try (line 1407): no request is sent, the catch sets the
\* error, and handleBulkSave goes on after its await (lines 1474-1483).
IdHandleBulkSave ==
  /\ ~loading
  /\ Len(selectedRows) < BulkThreshold
  /\ IdIsSaveEnabled
  /\ LET updatedData == MapById(data, Range(selectedRows),
                                [i \in 1..Len(data) |-> Stamp(data[i])])
         found == \A k \in 1..Len(selectedRows) :
                    \E i \in 1..Len(data) : IdOf(data[i]) = selectedRows[k]
     IN IF found
        THEN /\ Len(saves) < MaxSaves
             /\ saves' = Append(saves, [updatedData |-> updatedData])
             /\ showLoading' = TRUE
             /\ lastOp' = Op("handleBulkSave", "sent")
             /\ UNCHANGED << data, originalData, selectedRows, error >>
        ELSE /\ showLoading' = FALSE
             /\ error' = ErrSave
             /\ data' = updatedData
             /\ originalData' = updatedData
             /\ selectedRows' = <<>>
             /\ lastOp' = Op("handleBulkSave", "threw")
             /\ UNCHANGED saves
  /\ UNCHANGED << loading, sortConfig, showSuccessModal, showBulkEditModal,
                  bulkDecision, bulkComment, searchFilters, currentPage, month,
                  changedRows, search, loads, snapshot, used, selectAllChecked >>
  /\ RenderIds

\* The PUT of save i is answered (lines 1437-1452) and handleBulkSave
\* resumes after its await (lines 1474-1483).
IdSaveDone(i, ok) ==
  /\ i \in 1..Len(saves)
  /\ showLoading' = FALSE
  /\ IF ok
     THEN /\ showSuccessModal' = TRUE
          /\ error' = error
     ELSE /\ error' = ErrSave
          /\ UNCHANGED showSuccessModal
  /\ data' = saves[i].updatedData
  /\ originalData' = saves[i].updatedData
  /\ selectedRows' = <<>>
  /\ saves' = RemoveAt(saves, i)
  /\ lastOp' = Op("SaveDone", IF ok THEN "ok" ELSE "fail")
  /\ UNCHANGED << loading, sortConfig, showBulkEditModal, bulkDecision,
                  bulkComment, searchFilters, currentPage, month, changedRows,
                  search, loads, snapshot, used, selectAllChecked >>
  /\ RenderIds

\* The values typed or chosen in this dashboard's steps.
IdSortKeys == {"GroupId"}
IdSearchTerms == {"", "g1"}
IdDecisions == {"Increase"}

NextIds ==
  \/ \E ok \in BOOLEAN : IdLoadDone(ok)
  \/ \E key \in IdSortKeys : IdRequestSort(key)
  \/ \E value \in IdSearchTerms : IdHandleSearchChange(value)
  \/ \E p \in Positions : IdHandleCheckboxChange(p)
  \/ IdHandleSelectAll
  \/ \E p \in Positions, v \in IdDecisions : IdHandleDecisionChange(p, v)
  \/ \E v \in IdDecisions : IdSetBulkDecision(v)
  \/ IdHandleBulkEditSave
  \/ IdHandleBulkSave
  \/ \E i \in 1..MaxSaves, ok \in BOOLEAN : IdSaveDone(i, ok)

SpecIds == InitIds /\ [][NextIds]_vars

(***************************************************************************)
(* Notions the properties are stated with                                  *)
(***************************************************************************)
\* A terminal decision: 'Decrease' or 'No Change', whatever the case.
IsTerminal(row) ==
  LET d == toLowerCase(String(row.Decision))
  IN d = Chars("decrease") \/ d = Chars("no change")

\* The records of the Table whose checkbox is shown checked (line 686): the
\* records displayed at the selected positions.
SelectedRecords ==
  {sortedData[p] : p \in {q \in Range(selectedRows) : q <= Len(sortedData)}}

\* The editable columns of a record differ from those of another.
Differs(row, other) == row.Decision # other.Decision \/ row.Comment # other.Comment

(***************************************************************************)
(* C1 - a failed save leaves Table, selection and dirty set alone          *)
(***************************************************************************)
\* C1: when the PUT of a save fails, the Table, the Selection Set and the
\* Dirty Set after the save are what they were before it.
C1_FailedSaveChangesNothing ==
  [][\A i \in 1..MaxSaves :
       SaveDone(i, FALSE) =>
         /\ data' = data
         /\ selectedRows' = selectedRows
         /\ changedRows' = changedRows]_vars

(***************************************************************************)
(* C2 - the selection holds selectable records only                        *)
(***************************************************************************)
\* C2: in every reachable state every selected position shows a record
\* whose Decision is not terminal.
C2_SelectionIsSelectable ==
  \A p \in Range(selectedRows) :
    p <= Len(sortedData) => ~IsTerminal(RowAt(p))

(***************************************************************************)
(* C3 - sort, search and page changes keep the selected records            *)
(***************************************************************************)
\* C3: requestSort, handleSearchChange and handlePageChange leave the set of
\* selected records as it was.
C3_ViewKeepsSelectedRecords ==
  [][Viewing => SelectedRecords' = SelectedRecords]_vars

(***************************************************************************)
(* C4 - terminal records cannot be selected                                *)
(***************************************************************************)
\* C4: toggling the checkbox of a record whose Decision is terminal leaves
\* the selection unchanged, and select-all never adds such a record.
C4_TerminalNeverSelected ==
  [][/\ \A p \in Positions :
          (p \in Window /\ IsTerminal(RowAt(p)) /\ handleCheckboxChange(p))
            => selectedRows' = selectedRows
     /\ handleSelectAll =>
          \A r \in 1..Len(data) :
            (IsTerminal(data[r]) /\ r \notin SelectedRecords)
              => r \notin SelectedRecords']_vars

\* The checkbox handler has just run for a terminal row of a window in
\* which select-all had selected every other row.
C4_Witness ==
  /\ lastOp = Op("handleCheckboxChange", "greyed")
  /\ isSelectAllChecked
  /\ \E p \in Window : IsTerminal(RowAt(p)) /\ p \notin Range(selectedRows)

(***************************************************************************)
(* C5 - dirty means different from the snapshot                            *)
(***************************************************************************)
\* C5: in every reachable state a record is in the Dirty Set (changedRows)
\* if and only if its Decision or Comment differs from the Snapshot.
C5_DirtyIffDiffers ==
  \A i \in 1..Len(data) :
    i <= Len(snapshot) => ((i \in changedRows) <=> Differs(data[i], snapshot[i]))

C7_SuccessfulSave ==
  [][\A i \in 1..MaxSaves :
       SaveDone(i, TRUE) =>
         /\ selectedRows' = <<>>
         /\ \A r \in Range(saves[i].rows) :
              /\ r <= Len(data') /\ r <= Len(snapshot')
              /\ ~Differs(data'[r], snapshot'[r])
              /\ r \notin changedRows']_vars

\* A save of an edited row has just succeeded.
C7_Witness ==
  /\ lastOp = Op("SaveDone", "ok")
  /\ showSuccessModal
  /\ \E r \in 1..Len(data) :
       /\ data[r].Comment = "ok"
       /\ data[r].UpdatedBy = "System User"
       /\ snapshot[r].Comment = "ok"

(***************************************************************************)
(* C8 - a save of nothing is rejected                                      *)
(***************************************************************************)
\* C8: handleBulkSave with an empty selection sets the validation message,
\* sends no request and leaves Table, selection and dirty set unchanged.
C8_EmptySaveRejected ==
  [][(Len(selectedRows) = 0 /\ handleBulkSave) =>
       /\ error' = ErrSelectSave
       /\ saves' = saves
       /\ showLoading' = showLoading
       /\ data' = data
       /\ selectedRows' = selectedRows
       /\ changedRows' = changedRows]_vars

\* The handler has just rejected a save on a loaded Table with a dirty row.
C8_Witness ==
  /\ lastOp = Op("handleBulkSave", "rejected")
  /\ error = ErrSelectSave
  /\ Len(data) > 0
  /\ changedRows # {}
  /\ saves = <<>>

(***************************************************************************)
(* C9 - a completed load discards selection and dirty state                *)
(***************************************************************************)
\* C9: right after a load has completed successfully the Selection Set and
\* the Dirty Set are both empty.
C9_LoadDiscardsSelectionAndDirty ==
  lastOp = Op("LoadDone", "ok") => (selectedRows = <<>> /\ changedRows = {})

(***************************************************************************)
(* C10 - last load wins                                                    *)
(***************************************************************************)
\* C10: once every load has been answered, the last answer being a success,
\* the Table shown is the answer to the most recently requested load (the
\* one for the current month), whatever order the answers came in.
C10_LastLoadWins ==
  (loads = <<>> /\ lastOp = Op("LoadDone", "ok")) => data = ServerTable(month)

(***************************************************************************)
(* C11 - one save at a time                                                *)
(***************************************************************************)
\* C11: at most one persist request (PUT) is in flight at any time.
C11_OneSaveInFlight ==
  Len(saves) <= 1

(***************************************************************************)
(* C12 - a failed load keeps the Table                                     *)
(***************************************************************************)
\* C12: a load that fails sets the error message and leaves the previously
\* loaded Table unchanged.
C12_FailedLoadKeepsTable ==
  [][\A i \in 1..MaxLoads :
       LoadDone(i, FALSE) => (error' = ErrLoad /\ data' = data)]_vars

\* A load has just failed while the Table of an earlier load is shown.
C12_Witness ==
  /\ lastOp = Op("LoadDone", "fail")
  /\ error = ErrLoad
  /\ data = ServerTable("October")
  /\ month = "November"

(***************************************************************************)
(* C13 - an edit goes to the record shown                                  *)
(***************************************************************************)
\* C13: an edit of Comment or Decision made through the editor of the row
\* displayed at position p writes the value into the record shown there and
\* leaves every other record of the Table unchanged.
C13_EditGoesToRecordShown ==
  [][\A p \in Positions :
       /\ \A v \in CommentValues :
            handleCommentChange(p, v) =>
              /\ Len(data') = Len(data)
              /\ data'[sortedData[p]].Comment = v
              /\ \A r \in 1..Len(data) : r # sortedData[p] => data'[r] = data[r]
       /\ \A v \in DecisionOptions :
            handleDecisionChange(p, v) =>
              /\ Len(data') = Len(data)
              /\ data'[sortedData[p]].Decision = v
              /\ \A r \in 1..Len(data) : r # sortedData[p] => data'[r] = data[r]]_vars

(***************************************************************************)
(* C14 - what select-all does                                              *)
(***************************************************************************)
\* C14: if every selectable row of the window is already selected,
\* select-all removes exactly the window's rows from the selection;
\* otherwise it adds every selectable row of the window.  The branch is
\* determined by the selection and the window alone.
C14_SelectAllBranches ==
  [][handleSelectAll =>
       IF selectableRows \subseteq Range(selectedRows)
       THEN Range(selectedRows') = Range(selectedRows) \ Window
       ELSE Range(selectedRows') = Range(selectedRows) \cup selectableRows]_vars

C16_ToggleFlips ==
  [][\A p \in Positions :
       (p \in Window /\ ~IsTerminal(RowAt(p)) /\ handleCheckboxChange(p)) =>
         /\ p \in Range(selectedRows') <=> p \notin Range(selectedRows)
         /\ Range(selectedRows') \ {p} = Range(selectedRows) \ {p}
         /\ SelectedRecords' \ {sortedData[p]} = SelectedRecords \ {sortedData[p]}
         /\ Range(Toggle(selectedRows', p)) = Range(selectedRows)]_vars

\* A row of the freshly loaded Table has been ticked and unticked again,
\* nothing else having been done.
C16_Witness ==
  /\ lastOp = Op("handleCheckboxChange", "toggled")
  /\ selectedRows = <<>>
  /\ data = ServerTable("October")
  /\ used = [edits |-> 0, reloads |-> 0, views |-> 0]
  /\ saves = <<>>
  /\ error = ""

(***************************************************************************)
(* C17 - a terminal Decision deselects                                     *)
(***************************************************************************)
\* C17: an edit that sets the Decision of a selected row to 'Decrease' or
\* 'No Change' removes that row from the selection in the same step.
C17_TerminalEditDeselects ==
  [][\A p \in Positions : \A v \in {"Decrease", "No Change"} :
       (p \in Range(selectedRows) /\ handleDecisionChange(p, v)) =>
         p \notin Range(selectedRows')]_vars

(***************************************************************************)
(* C18 - what bulk-apply writes                                            *)
(***************************************************************************)
\* C18: bulk-apply with a chosen decision writes the chosen decision and
\* comment and the UpdatedBy/UpdatedTime stamp into every selected record,
\* leaves every other record as it was, and marks every selected row dirty.
C18_BulkApplyWritesSelected ==
  [][(bulkDecision # "" /\ handleBulkEditSave) =>
       /\ Len(data') = Len(data)
       /\ \A r \in 1..Len(data) :
            IF r \in SelectedRecords
            THEN data'[r] = Stamp([data[r] EXCEPT !.Decision = bulkDecision,
                                                  !.Comment = bulkComment])
            ELSE data'[r] = data[r]
       /\ Range(selectedRows) \subseteq changedRows']_vars

(***************************************************************************)
(* C19 - bulk-apply without a decision                                     *)
(***************************************************************************)
\* C19: bulk-apply submitted with no decision chosen sets the validation
\* message, leaves Table, selection and dirty set unchanged, keeps the
\* dialog open and starts no request.
C19_BulkApplyNeedsDecision ==
  [][(bulkDecision = "" /\ handleBulkEditSave) =>
       /\ error' = ErrBulkDecision
       /\ data' = data
       /\ selectedRows' = selectedRows
       /\ changedRows' = changedRows
       /\ showBulkEditModal' /\ showBulkEditModal
       /\ saves' = saves
       /\ loads' = loads]_vars

\* The dialog has just rejected a submit without a decision, with rows
\* selected and a comment typed.
C19_Witness ==
  /\ lastOp = Op("handleBulkEditSave", "rejected")
  /\ error = ErrBulkDecision
  /\ showBulkEditModal
  /\ bulkDecision = ""
  /\ bulkComment = "ok"
  /\ selectedRows # <<>>

(***************************************************************************)
(* C20 - a record can leave the Terminal state                             *)
(***************************************************************************)
\* C20: a Decision edit that replaces a terminal value of a record by a
\* non-terminal one leaves the record non-terminal, and toggling a displayed
\* non-terminal row that is not selected adds it to the selection; so a
\* record that was terminal can be selected again.
C20_TerminalCanBeLeft ==
  [][\A p \in Positions :
       /\ \A v \in DecisionOptions \ {"Decrease", "No Change"} :
            (p <= Len(data) /\ IsTerminal(data[p]) /\ handleDecisionChange(p, v)) =>
              ~IsTerminal(data'[p])
       /\ (/\ p \in Window
           /\ ~IsTerminal(RowAt(p))
           /\ p \notin Range(selectedRows)
           /\ handleCheckboxChange(p)) => p \in Range(selectedRows')]_vars

\* The first record of the October Table is selected by a toggle, with a
\* Decision of 'Increase', after exactly two cell edits and nothing else
\* changed: the loaded Decision '' can only have become 'Increase' in two
\* edits by way of 'Decrease' or 'No Change' (choosing the value shown is
\* no edit), and the toggle that selected the row last came after them.
C20_Witness ==
  /\ lastOp = Op("handleCheckboxChange", "toggled")
  /\ selectedRows = <<1>>
  /\ used = [edits |-> 2, reloads |-> 0, views |-> 0]
  /\ Len(data) = 3
  /\ data[1] = [ServerTable("October")[1] EXCEPT !.Decision = "Increase"]
  /\ data[2] = ServerTable("October")[2]
  /\ data[3] = ServerTable("October")[3]
  /\ changedRows = {1}

(***************************************************************************)
(* C21 - when the save button is enabled                                   *)
(***************************************************************************)
\* C21: isSaveEnabled is true exactly when the selection is not empty and at
\* least one selected record differs from the Snapshot in Decision or
\* Comment; it is false when every edit of a selected row has been reverted.
C21_SaveEnabledIffSelectedDirty ==
  isSaveEnabled <=>
    /\ Len(selectedRows) > 0
    /\ \E r \in SelectedRecords :
         r <= Len(snapshot) /\ Differs(data[r], snapshot[r])

(***************************************************************************)
(* C22 - what a save sends                                                 *)
(***************************************************************************)
\* C22: the update batch built by a save has exactly one entry per selected
\* record, and each entry carries the GroupId and the current Decision and
\* Comment of that selected record.
C22_BatchIsTheSelectedRecords ==
  [][(Len(selectedRows) > 0 /\ handleBulkSave) =>
       LET updates == saves'[Len(saves')].updates
           Carries(u, r) == /\ u.GroupId = data[r].GroupId
                            /\ u.Decision = data[r].Decision
                            /\ u.comment = data[r].Comment
       IN /\ Len(updates) = Cardinality(SelectedRecords)
          /\ \A r \in SelectedRecords : \E k \in 1..Len(updates) : Carries(updates[k], r)
          /\ \A k \in 1..Len(updates) : \E r \in SelectedRecords : Carries(updates[k], r)]_vars

(***************************************************************************)
(* C23 - which records the filter keeps                                    *)
(***************************************************************************)
\* The string a cell value is searched in: blank and absent values count
\* as the empty string, any other value as its string form.
SearchText(v) == IF v = "" \/ v = UNDEFINED THEN <<>> ELSE String(v)

\* C23: the filter keeps a record if and only if the search term is empty
\* or the string form of the record's GroupId contains it, letter case
\* aside; a falsy value such as the number 0 is matched through its string
\* form and is not dropped outright.
C23_FilterKeepsMatches ==
  \A i \in 1..Len(data) :
    (i \in Range(filteredDataOf(data, searchFilters)))
      <=> \/ searchFilters = ""
          \/ includes(toLowerCase(SearchText(data[i].GroupId)),
                      toLowerCase(Chars(searchFilters)))

(***************************************************************************)
(* C24 - filtering twice                                                   *)
(***************************************************************************)
\* C24: filtering the result of the filter again with the same search term
\* yields the same records in the same order.
C24_FilterIdempotent ==
  LET once == Rows(data, filteredDataOf(data, searchFilters))
      twice == Rows(once, filteredDataOf(once, searchFilters))
  IN twice = once

\* A search term has just been typed that keeps some records of the Table
\* and drops others.
C24_Witness ==
  /\ lastOp = Op("handleSearchChange", "g1")
  /\ sortConfig.key = NULL
  /\ Len(sortedData) > 1
  /\ Len(sortedData) < Len(data)
  /\ Rows(data, sortedData) = Rows(data, filteredDataOf(data, searchFilters))

(***************************************************************************)
(* C25 - the Decision column is sorted by rank                             *)
(***************************************************************************)
\* The rank of a Decision: increase, no change, decrease in ascending
\* order, the reverse in descending order, anything else after them.
DecisionRank(direction, v) ==
  LET lower == toLowerCase(String(v))
      place == IF lower = Chars("increase") THEN 1
               ELSE IF lower = Chars("no change") THEN 2
               ELSE IF lower = Chars("decrease") THEN 3
               ELSE 0
  IN IF place = 0 THEN 4
     ELSE IF direction = "asc" THEN place ELSE 4 - place

\* C25: sorted by the Decision column, the records with a non-blank
\* Decision follow each other by rank (increase, no change, decrease
\* ascending, the reverse descending, letter case aside, any other value
\* last in both directions), and records of equal rank keep the order they
\* had before the sort.
C25_DecisionSortedByRank ==
  \A direction \in {"asc", "desc"} :
    LET s == sortedDataPrioritized(data, searchFilters,
                                   [key |-> "Decision", direction |-> direction])
    IN /\ Range(s) = Range(filteredDataOf(data, searchFilters))
       /\ Len(s) = Len(filteredDataOf(data, searchFilters))
       /\ \A i, j \in 1..Len(s) :
            (i < j /\ data[s[i]].Decision # "" /\ data[s[j]].Decision # "") =>
              LET ri == DecisionRank(direction, data[s[i]].Decision)
                  rj == DecisionRank(direction, data[s[j]].Decision)
              IN ri <= rj /\ (ri = rj => s[i] < s[j])

\* The Decision header has just been clicked on a Table that lists
\* Decrease, Increase, No Change in this order: by rank the order is
\* Increase, No Change, Decrease, by the alphabet it is not.
C25_Witness ==
  /\ lastOp = Op("requestSort", "Decision")
  /\ sortConfig = [key |-> "Decision", direction |-> "asc"]
  /\ searchFilters = ""
  /\ Len(data) = 3
  /\ data[1].Decision = "Decrease"
  /\ data[2].Decision = "Increase"
  /\ data[3].Decision = "No Change"
  /\ sortedDataPrioritized(data, searchFilters, sortConfig) = <<2, 3, 1>>
  /\ sortedData = <<1, 2, 3>>

(***************************************************************************)
(* C26 - where blank values are sorted                                     *)
(***************************************************************************)
\* The blank value as the summary pages store it after a load.
IsBlank(v) == v = "0"

\* What a comparator must answer for two stored values of which at least
\* one is blank: equal if both are, else the blank one last in ascending
\* and first in descending order.
BlankOrdered(a, b, asc, desc) ==
  /\ (IsBlank(a) /\ IsBlank(b)) => (asc = 0 /\ desc = 0)
  /\ (IsBlank(a) /\ ~IsBlank(b)) => (asc > 0 /\ desc < 0)
  /\ (~IsBlank(a) /\ IsBlank(b)) => (asc < 0 /\ desc > 0)

\* C26: for every sort column and every two values of the loaded Table,
\* each comparator of the summary pages orders a blank value after a
\* non-blank one in ascending order and before it in descending order, and
\* finds two blank values equal.
C26_BlankSortsLast ==
  \A key \in SortKeys : \A i, j \in 1..Len(data) :
    LET a == processedValue(data[i][key])
        b == processedValue(data[j][key])
    IN /\ BlankOrdered(a, b, CompareFirstSummary(a, b, "asc"),
                             CompareFirstSummary(a, b, "desc"))
       /\ BlankOrdered(a, b, CompareSecondSummary(a, b, "asc"),
                             CompareSecondSummary(a, b, "desc"))

(***************************************************************************)
(* C27 - numbers are compared as numbers                                   *)
(***************************************************************************)
Sign(n) == IF n < 0 THEN -1 ELSE IF n > 0 THEN 1 ELSE 0

\* A cell value that is not blank and that Number() turns into a number.
IsNumeric(v) == v # "" /\ ~IsNaN(String(v))

\* The sign the comparison of two non-blank values must have in ascending
\* order: by numeric value if both are numbers, else by the lower-cased
\* strings.
AscendingSign(a, b) ==
  IF IsNumeric(a) /\ IsNumeric(b)
  THEN Sign(Number(String(a)) - Number(String(b)))
  ELSE IF StrLess(toLowerCase(String(a)), toLowerCase(String(b))) THEN -1
  ELSE IF StrLess(toLowerCase(String(b)), toLowerCase(String(a))) THEN 1
  ELSE 0

\* C27: two non-blank values that both parse as numbers are compared by
\* numeric value, any other two non-blank values by their lower-cased
\* strings, and the descending comparison is the negated ascending one; a
\* column of numbers is listed by numeric value, and for distinct numbers
\* the descending list is the ascending list reversed.
C27_NumbersComparedAsNumbers ==
  \A key \in SortKeys :
    LET f == filteredDataOf(data, searchFilters)
        up == sortedDataOf(data, searchFilters, [key |-> key, direction |-> "asc"])
        down == sortedDataOf(data, searchFilters, [key |-> key, direction |-> "desc"])
        num(r) == Number(String(data[r][key]))
    IN /\ \A i, j \in 1..Len(data) :
            LET a == data[i][key]
                b == data[j][key]
            IN (a # "" /\ b # "") =>
                 /\ Sign(Compare(a, b, "asc")) = AscendingSign(a, b)
                 /\ Sign(Compare(a, b, "desc")) = 0 - AscendingSign(a, b)
       /\ (\A k \in 1..Len(f) : IsNumeric(data[f[k]][key])) =>
            /\ \A k \in 1..(Len(up) - 1) : num(up[k]) <= num(up[k + 1])
            /\ \A k \in 1..(Len(down) - 1) : num(down[k]) >= num(down[k + 1])
            /\ (\A k, l \in 1..Len(f) : k # l => num(f[k]) # num(f[l])) =>
                 \A k \in 1..Len(up) : down[k] = up[Len(up) + 1 - k]

\* The GroupId header has just been clicked on a Table that lists '10'
\* before '9' and the number 0 last: the page lists 0, '9', '10'.
C27_Witness ==
  /\ lastOp = Op("requestSort", "GroupId")
  /\ sortConfig = [key |-> "GroupId", direction |-> "asc"]
  /\ searchFilters = ""
  /\ Len(data) = 3
  /\ data[1].GroupId = "10"
  /\ data[2].GroupId = "9"
  /\ data[3].GroupId = ZERO
  /\ sortedData = <<3, 2, 1>>

(***************************************************************************)
(* C28 - the comparator as an ordering                                     *)
(***************************************************************************)
\* C28: on the values of every column, in both directions, the comparator
\* is antisymmetric in sign (cmp(a,b) and cmp(b,a) have opposite signs or
\* are both 0) and transitive (cmp(a,b) <= 0 and cmp(b,c) <= 0 imply
\* cmp(a,c) <= 0).
C28_ComparatorIsPreorder ==
  \A key \in SortKeys : \A direction \in {"asc", "desc"} :
    \A i, j, k \in 1..Len(data) :
      LET a == data[i][key]
          b == data[j][key]
          c == data[k][key]
      IN /\ Sign(Compare(a, b, direction)) = 0 - Sign(Compare(b, a, direction))
         /\ (Compare(a, b, direction) <= 0 /\ Compare(b, c, direction) <= 0)
              => Compare(a, c, direction) <= 0

C30_PagesPartitionTheList ==
  /\ totalPages * PageSize >= totalItems
  /\ totalPages >= 0
  /\ totalPages > 0 => (totalPages - 1) * PageSize < totalItems
  /\ \A k \in 1..totalPages :
       /\ WindowOf(k) = (startIndexOf(k) + 1)..endIndexOf(k)
       /\ WindowOf(k) # {}
       /\ startIndexOf(k) = IF k = 1 THEN 0 ELSE endIndexOf(k - 1)
  /\ \A k, l \in 1..totalPages : k # l => WindowOf(k) \cap WindowOf(l) = {}
  /\ UNION {WindowOf(k) : k \in 1..totalPages} = 1..totalItems
  /\ \A p \in 1..totalItems :
       Cardinality({k \in 1..totalPages : p \in WindowOf(k)}) = 1

\* The second page of a list of three records has just been opened: it
\* shows the third record alone.
C30_Witness ==
  /\ lastOp = Op("handlePageChange", "")
  /\ currentPage = 2
  /\ totalItems = 3
  /\ totalPages = 2
  /\ Window = {3}

(***************************************************************************)
(* C32 - every request returns control                                     *)
(***************************************************************************)
\* No load and no save is in flight.
Quiet == loads = <<>> /\ saves = <<>>

C35_LoadingWhileInFlight == loads # <<>> => loading

(***************************************************************************)
(* C38 - the success dialog                                                *)
(***************************************************************************)
\* C38: the success dialog comes up only in the step in which a persist
\* call is answered OK; the step in which a persist call fails sets the
\* error message and leaves the success dialog as it was; and a save
\* rejected for an empty selection starts no request and leaves both the
\* success dialog and the saving overlay as they were.
C38_SuccessOnlyAfterOk ==
  [][/\ (showSuccessModal' /\ ~showSuccessModal) => lastOp' = Op("SaveDone", "ok")
     /\ lastOp' = Op("SaveDone", "fail") =>
          /\ error' = ErrSave
          /\ showSuccessModal' = showSuccessModal
     /\ lastOp' = Op("handleBulkSave", "rejected") =>
          /\ showSuccessModal' = showSuccessModal
          /\ showLoading' = showLoading
          /\ saves' = saves]_vars

\* A save has just failed with no earlier success: the error message is up
\* and the success dialog is not.
C38_Witness ==
  /\ lastOp = Op("SaveDone", "fail")
  /\ error = ErrSave
  /\ ~showSuccessModal
  /\ saves = <<>>
  /\ data # snapshot

(***************************************************************************)
(* C34 - the current page exists                                           *)
(***************************************************************************)
\* C34: the current page lies between 1 and max(1, totalPages), and the
\* window shown is non-empty whenever the filtered list is non-empty.
C34_CurrentPageExists ==
  /\ currentPage >= 1
  /\ currentPage <= (IF totalPages > 1 THEN totalPages ELSE 1)
  /\ totalItems > 0 => Window # {}

(***************************************************************************)
(* C33 - no lost update across a save                                      *)
(***************************************************************************)
\* A row with its attribution stamps left out.
Unstamped(row) == [row EXCEPT !.UpdatedBy = "", !.UpdatedTime = ""]

\* C33: the step in which a save completes changes the Table only in the
\* attribution stamps of rows of that save: the Table keeps its length,
\* every row keeps all its other fields, and a row outside the batches in
\* flight stays as it is.
C33_NoLostUpdate ==
  [][lastOp' \in {Op("SaveDone", "ok"), Op("SaveDone", "fail")} =>
       /\ Len(data') = Len(data)
       /\ \A r \in 1..Len(data) :
            /\ Unstamped(data'[r]) = Unstamped(data[r])
            /\ (\A i \in 1..Len(saves) : r \notin Range(saves[i].rows))
                 => data'[r] = data[r]]_vars

(***************************************************************************)
(* C36 - the select-all flag and what the header checkbox displays         *)
(***************************************************************************)
\* C36: the selectAllChecked flag, which chooses the branch of
\* handleSelectAll, always equals the computed isSelectAllChecked(), which
\* the header checkbox displays.
C36_FlagAgreesWithCheckbox == selectAllChecked <=> FlagIsSelectAllChecked

(***************************************************************************)
(* C37 - what a revision of the spreadsheet dashboard updates              *)
(***************************************************************************)
\* C37: a revision submitted with all three fields filled writes the
\* fields into exactly the records displayed at the selected rows, each of
\* them once, and leaves every other record as it is; a revision submitted
\* with a field empty leaves the Table and the selection as they are.
C37_RevisionUpdatesSelected ==
  [][/\ lastOp' = Op("handleSubmitRevision", "saved") =>
          /\ decision # "" /\ comment # "" /\ updatedBy # ""
          /\ Len(data') = Len(data)
          /\ \A r \in 1..Len(data) :
               data'[r] = IF r \in SelectedRecords THEN Revised(data[r]) ELSE data[r]
     /\ lastOp' = Op("handleSubmitRevision", "alert") =>
          /\ decision = "" \/ comment = "" \/ updatedBy = ""
          /\ data' = data
          /\ selectedRows' = selectedRows]_vars

(***************************************************************************)
(* C31 - record identity between two loads                                 *)
(***************************************************************************)
\* The __uniqueId__ values of the Table, in Table order.
IdsOf(table) == [i \in 1..Len(table) |-> IdOf(table[i])]

====
